---- MODULE Spec2Model ----
(***************************************************************************)
(* Quantum Gravity Miner IIT v8 kernel                                     *)
(* (miners/python-miner/quantum_gravity_miner_iit_v8.py).                  *)
(*                                                                         *)
(* Representation of the program's values:                                 *)
(*  - a Python int is a record [neg, mag]: sign and magnitude, the         *)
(*    magnitude a sequence of hex digits (0..15), most significant first,  *)
(*    without leading zeros (<<>> is 0).  Python ints are unbounded, and   *)
(*    the difficulty arithmetic works on 256-bit values and beyond;        *)
(*  - a 64-character hex hash string is the sequence of its 64 digit       *)
(*    values;                                                              *)
(*  - a float that is a score, a weight or a threshold is a fixed-point    *)
(*    integer counting units of 1/One.  The inputs are multiples of        *)
(*    One/16, so every product and sum the code forms is exact both here   *)
(*    and in IEEE double arithmetic;                                       *)
(*  - SHA-256 and the linear algebra (SVD, eigenvalues) are deterministic  *)
(*    functions of the bytes that are not evaluated here: the value for a  *)
(*    byte string is chosen when the program first computes it and is      *)
(*    fixed from then on (hashOf, compOf).                                 *)
(***************************************************************************)
EXTENDS Integers, Sequences, FiniteSets, TLC

\* ------------------------------------------------------------------ bounds

\* Largest max_attempts a mining call is given.
MaxAttempts == 2

\* Largest number of synchronize calls made on a replica.
MaxSync == 3

\* Largest size of a replicator: the number of replicas and of deployment
\* targets it holds plus the number of synchronizations of its replicas.
MaxSize == 3

\* ------------------------------------------------------- program constants

\* Width of the hash in bits: target = 2 ** (256 - bit_length(difficulty)).
HashBits == 256
\* Length of the hex hash string (hexdigest of SHA-256).
HashHexLen == 64
\* Smallest exponent e for which the Python float 2.0 ** e is not 0.0
\* (the smallest subnormal double is 2 ** -1074).
MinFloatExp == -1074
\* Fixed-point unit: the float 1.0.
One == 256

\* An Optional value: None is the empty sequence, a present value x is <<x>>
\* (a present string is the string itself, a non-empty sequence).
None == <<>>
Some(x) == <<x>>
\* The value of a variable that holds nothing yet.
Unset == [unset |-> TRUE]

\* ------------------------------------------------------------ Python ints

HexDigit == 0..15

RECURSIVE StripZeros(_)
\* The digits of s without its leading zeros.
StripZeros(s) ==
    IF s = <<>> THEN <<>>
    ELSE IF s[1] = 0 THEN StripZeros(Tail(s)) ELSE s

\* int(hash_hex, 16)
IntFromHex(hash_hex) == [neg |-> FALSE, mag |-> StripZeros(hash_hex)]

\* Number of significant bits of one hex digit.
DigitBits(d) ==
    IF d = 0 THEN 0 ELSE IF d = 1 THEN 1 ELSE IF d < 4 THEN 2
    ELSE IF d < 8 THEN 3 ELSE 4

\* int.bit_length()
bit_length(x) ==
    IF x.mag = <<>> THEN 0 ELSE 4 * (Len(x.mag) - 1) + DigitBits(x.mag[1])

\* x <= 0 for a Python int
IsNonPositive(x) == x.neg \/ x.mag = <<>>

Zeros(n) == [i \in 1..n |-> 0]
Fs(n) == [i \in 1..n |-> 15]

\* The Python int 2 ** e, e >= 0.
Pow2Int(e) ==
    [neg |-> FALSE,
     mag |-> << (IF e % 4 = 0 THEN 1 ELSE IF e % 4 = 1 THEN 2
                 ELSE IF e % 4 = 2 THEN 4 ELSE 8) >> \o Zeros(e \div 4)]

RECURSIVE MagLess(_, _)
\* a < b for two magnitudes of the same length (lexicographic).
MagLess(a, b) ==
    IF a = <<>> THEN FALSE
    ELSE IF a[1] # b[1] THEN a[1] < b[1]
    ELSE MagLess(Tail(a), Tail(b))

\* a < b for two non-negative Python ints.
NatLess(a, b) ==
    IF Len(a.mag) # Len(b.mag) THEN Len(a.mag) < Len(b.mag)
    ELSE MagLess(a.mag, b.mag)

\* a < b for two Python ints.
IntLess(a, b) ==
    IF a.neg /\ ~b.neg THEN TRUE
    ELSE IF ~a.neg /\ b.neg THEN FALSE
    ELSE IF a.neg THEN NatLess(b, a)
    ELSE NatLess(a, b)

IntLeq(a, b) == a = b \/ IntLess(a, b)

\* 2 ** e as Python evaluates it: an int for e >= 0, a float for e < 0
\* (a power of two down to 2 ** -1074, and 0.0 below that).
Pow2(e) ==
    IF e >= 0 THEN [float |-> FALSE, int |-> Pow2Int(e)]
    ELSE [float |-> TRUE, zero |-> e < MinFloatExp, exp |-> e]

\* hash_int < target, hash_int a non-negative int.  Python compares an int
\* with a float by value: a float target lies in [0, 1), so only 0 can be
\* below it, and nothing is below 0.0.
LessThanTarget(hash_int, target) ==
    IF target.float
    THEN (~target.zero) /\ hash_int.mag = <<>>
    ELSE IntLess(hash_int, target.int)

\* ------------------------------------------------------- meets_difficulty

meets_difficulty_le(hash_hex, difficulty) ==
    IF IsNonPositive(difficulty) THEN TRUE
    ELSE LET hash_int == IntFromHex(hash_hex)
             target == Pow2(HashBits - bit_length(difficulty))
         IN  IF target.float
             THEN (~target.zero) /\ hash_int.mag = <<>>
             ELSE IntLeq(hash_int, target.int)

meets_difficulty_inverted(hash_hex, difficulty) ==
    IF IsNonPositive(difficulty) THEN TRUE
    ELSE LET hash_int == IntFromHex(hash_hex)
             target == Pow2(bit_length(difficulty))
         IN  LessThanTarget(hash_int, target)

\* QuantumGravityMinerIITv8.meets_difficulty
meets_difficulty(hash_hex, difficulty) ==
    IF IsNonPositive(difficulty) THEN TRUE
    ELSE LET hash_int == IntFromHex(hash_hex)
             target == Pow2(HashBits - bit_length(difficulty))
         IN  LessThanTarget(hash_int, target)

\* ------------------------------------------------------------- IIT engine

Max(a, b) == IF a >= b THEN a ELSE b
Min(a, b) == IF a <= b THEN a ELSE b

\* np.clip(x, lo, hi)
Clip(x, lo, hi) == Min(Max(x, lo), hi)

\* Product of two fixed-point floats.
Mul(a, b) == (a * b) \div One

\* PhiStructureV8(): all eight fields default to 0.0.
PhiStructureV8 ==
    [phi_tau |-> 0, gwt_s |-> 0, icp_avg |-> 0, fano_score |-> 0,
     phi_nab |-> 0, qg_score |-> 0, holo_score |-> 0, phi_total |-> 0]

IITv8Engine_noClamp(n_nodes, temporal_depth) ==
    [n_nodes |-> n_nodes, temporal_depth |-> temporal_depth]

\* IITv8Engine.__init__
IITv8Engine(n_nodes, temporal_depth) ==
    [n_nodes |-> Max(n_nodes, 2), temporal_depth |-> Max(temporal_depth, 1)]

\* ASISphinxOSIITv8.__init__ ; w is the record of the seven weights.
ASISphinxOSIITv8(w, n_nodes, temporal_depth) ==
    [alpha |-> w.alpha, beta |-> w.beta, gamma |-> w.gamma, delta |-> w.delta,
     epsilon |-> w.epsilon, zeta |-> w.zeta, eta |-> w.eta,
     engine |-> IITv8Engine(n_nodes, temporal_depth)]

compute_block_consciousness_noClip(iit, c) ==
    [phi_tau |-> c.phi_tau, gwt_s |-> c.gwt_s, icp_avg |-> c.icp_avg,
     fano_score |-> c.fano_score, phi_nab |-> c.phi_nab,
     qg_score |-> c.qg_score, holo_score |-> c.holo_score,
     phi_total |-> Mul(iit.alpha, c.phi_tau) + Mul(iit.beta, c.gwt_s)
                     + Mul(iit.gamma, c.icp_avg)
                     + Mul(iit.delta, c.fano_score)
                     + Mul(iit.epsilon, c.phi_nab)
                     + Mul(iit.zeta, c.qg_score)
                     + Mul(iit.eta, c.holo_score)]

\* ASISphinxOSIITv8.compute_block_consciousness ; c holds the seven scores
\* the engine computes for the data.
compute_block_consciousness(iit, c) ==
    LET phi_total == Mul(iit.alpha, c.phi_tau)
                   + Mul(iit.beta, c.gwt_s)
                   + Mul(iit.gamma, c.icp_avg)
                   + Mul(iit.delta, c.fano_score)
                   + Mul(iit.epsilon, c.phi_nab)
                   + Mul(iit.zeta, c.qg_score)
                   + Mul(iit.eta, c.holo_score)
    IN  [phi_tau |-> c.phi_tau, gwt_s |-> c.gwt_s, icp_avg |-> c.icp_avg,
         fano_score |-> c.fano_score, phi_nab |-> c.phi_nab,
         qg_score |-> c.qg_score, holo_score |-> c.holo_score,
         phi_total |-> Clip(phi_total, 0, One)]

phi_to_legacy_score_noClip(phi_total) == 200 * One + phi_total * 800

\* ASISphinxOSIITv8.phi_to_legacy_score
phi_to_legacy_score(phi_total) ==
    Clip(200 * One + phi_total * 800, 200 * One, 1000 * One)

\* math.log2(n) for the node counts of the model, in units of 1/One rounded
\* down.  log2(n) is either an integer or irrational, so for a fixed-point x
\* the comparison x > log2(n) + t is the comparison x > Log2Fixed(n) + t.
Log2Fixed(n) ==
    CASE n = 1 -> 0
      [] n = 2 -> One
      [] n = 3 -> 405
      [] n = 4 -> 2 * One
      [] n = 5 -> 594
      [] n = 6 -> 661
      [] n = 7 -> 718
      [] n = 8 -> 3 * One

validate_consciousness_consensus_ge(iit, phi_total, fano_score, qg_score, n_nodes) ==
    LET n == Max(n_nodes, 1)
        threshold == Log2Fixed(n) + Mul(iit.delta, fano_score)
                                  + Mul(iit.zeta, qg_score)
    IN  phi_total >= threshold

validate_consciousness_consensus_soloOnly(iit, phi_total, fano_score, qg_score, n_nodes) ==
    LET n == 1
        threshold == Log2Fixed(n) + Mul(iit.delta, fano_score)
                                  + Mul(iit.zeta, qg_score)
    IN  phi_total > threshold

validate_consciousness_consensus_inverseLog(iit, phi_total, fano_score, qg_score, n_nodes) ==
    LET n == Max(n_nodes, 1)
        threshold == Mul(iit.delta, fano_score) + Mul(iit.zeta, qg_score)
                       - Log2Fixed(n)
    IN  phi_total > threshold

\* ASISphinxOSIITv8.validate_consciousness_consensus
validate_consciousness_consensus(iit, phi_total, fano_score, qg_score, n_nodes) ==
    LET n == Max(n_nodes, 1)
        threshold == Log2Fixed(n) + Mul(iit.delta, fano_score)
                                  + Mul(iit.zeta, qg_score)
    IN  phi_total > threshold

\* ----------------------------------------------------------------- kernel

\* QuantumGravityMinerIITv8.__init__
QuantumGravityMinerIITv8(qg_threshold, n_nodes, w, temporal_depth) ==
    [iit |-> ASISphinxOSIITv8(w, n_nodes, temporal_depth),
     qg_threshold |-> Max(0, Min(One, qg_threshold))]

\* QuantumGravityMinerIITv8.compute_phi_structure
compute_phi_structure(k, c) == compute_block_consciousness(k.iit, c)

is_valid_block_qgFirst(k, hash_hex, c, difficulty, n_network_nodes) ==
    IF ~meets_difficulty(hash_hex, difficulty)
    THEN [valid |-> FALSE, structure |-> PhiStructureV8,
          gate_failed |-> "difficulty", computed |-> FALSE]
    ELSE LET structure == compute_phi_structure(k, c) IN
         IF structure.qg_score < k.qg_threshold
         THEN [valid |-> FALSE, structure |-> structure,
               gate_failed |-> "qg_curvature", computed |-> TRUE]
         ELSE IF ~validate_consciousness_consensus(k.iit, structure.phi_total,
                structure.fano_score, structure.qg_score, n_network_nodes)
         THEN [valid |-> FALSE, structure |-> structure,
               gate_failed |-> "consciousness", computed |-> TRUE]
         ELSE [valid |-> TRUE, structure |-> structure,
               gate_failed |-> "", computed |-> TRUE]

is_valid_block_eager(k, hash_hex, c, difficulty, n_network_nodes) ==
    LET structure == compute_phi_structure(k, c) IN
    IF ~meets_difficulty(hash_hex, difficulty)
    THEN [valid |-> FALSE, structure |-> structure,
          gate_failed |-> "difficulty", computed |-> TRUE]
    ELSE IF ~validate_consciousness_consensus(k.iit, structure.phi_total,
                structure.fano_score, structure.qg_score, n_network_nodes)
         THEN [valid |-> FALSE, structure |-> structure,
               gate_failed |-> "consciousness", computed |-> TRUE]
         ELSE IF structure.qg_score < k.qg_threshold
         THEN [valid |-> FALSE, structure |-> structure,
               gate_failed |-> "qg_curvature", computed |-> TRUE]
         ELSE [valid |-> TRUE, structure |-> structure,
               gate_failed |-> "", computed |-> TRUE]

\* QuantumGravityMinerIITv8.is_valid_block.  hash_hex is compute_hash(data),
\* c the engine's scores for data.  The field computed records whether the
\* call reached compute_phi_structure.
is_valid_block(k, hash_hex, c, difficulty, n_network_nodes) ==
    IF ~meets_difficulty(hash_hex, difficulty)
    THEN [valid |-> FALSE, structure |-> PhiStructureV8,
          gate_failed |-> "difficulty", computed |-> FALSE]
    ELSE LET structure == compute_phi_structure(k, c) IN
         IF ~validate_consciousness_consensus(k.iit, structure.phi_total,
                structure.fano_score, structure.qg_score, n_network_nodes)
         THEN [valid |-> FALSE, structure |-> structure,
               gate_failed |-> "consciousness", computed |-> TRUE]
         ELSE IF structure.qg_score < k.qg_threshold
         THEN [valid |-> FALSE, structure |-> structure,
               gate_failed |-> "qg_curvature", computed |-> TRUE]
         ELSE [valid |-> TRUE, structure |-> structure,
               gate_failed |-> "", computed |-> TRUE]

\* str(nonce): decimal text, no sign, no padding.
DigitChar(d) == <<"0", "1", "2", "3", "4", "5", "6", "7", "8", "9">>[d + 1]

RECURSIVE DecimalRepr(_)
DecimalRepr(n) ==
    IF n < 10 THEN <<DigitChar(n)>>
    ELSE DecimalRepr(n \div 10) \o <<DigitChar(n % 10)>>

\* f"{block_data}{nonce}".encode()
CandidateData(block_data, nonce) == block_data \o DecimalRepr(nonce)

InRange_inclusive(nonce, max_attempts) == nonce <= max_attempts

\* nonce in range(max_attempts): the loop of mine and of mine_with_stats
\* runs its body for this nonce.
InRange(nonce, max_attempts) == 0 <= nonce /\ nonce < max_attempts

NextNonce_skip(n) == n + 2

\* The nonce after n in range(max_attempts).
NextNonce(n) == n + 1

FoundResult_attemptsIsNonce(nonce, hash_hex, structure) ==
    [nonce |-> Some(nonce), block_hash |-> hash_hex,
     phi_total |-> structure.phi_total, qg_score |-> structure.qg_score,
     holo_score |-> structure.holo_score, fano_score |-> structure.fano_score,
     phi_score |-> phi_to_legacy_score(structure.phi_total),
     attempts |-> nonce]

FoundResult_nextNonce(nonce, hash_hex, structure) ==
    [nonce |-> Some(nonce + 1), block_hash |-> hash_hex,
     phi_total |-> structure.phi_total, qg_score |-> structure.qg_score,
     holo_score |-> structure.holo_score, fano_score |-> structure.fano_score,
     phi_score |-> phi_to_legacy_score(structure.phi_total),
     attempts |-> nonce + 1]

\* MineResultV8 of a winning candidate.
FoundResult(nonce, hash_hex, structure) ==
    [nonce |-> Some(nonce), block_hash |-> hash_hex,
     phi_total |-> structure.phi_total, qg_score |-> structure.qg_score,
     holo_score |-> structure.holo_score, fano_score |-> structure.fano_score,
     phi_score |-> phi_to_legacy_score(structure.phi_total),
     attempts |-> nonce + 1]

NoResult_zeroScore(max_attempts) ==
    [nonce |-> None, block_hash |-> None, phi_total |-> 0, qg_score |-> 0,
     holo_score |-> 0, fano_score |-> 0, phi_score |-> 0,
     attempts |-> max_attempts]

\* MineResultV8 returned after the loop ran out of nonces.
NoResult(max_attempts) ==
    [nonce |-> None, block_hash |-> None, phi_total |-> 0, qg_score |-> 0,
     holo_score |-> 0, fano_score |-> 0, phi_score |-> 200 * One,
     attempts |-> max_attempts]

\* The stats dict at the start of mine_with_stats.
ZeroStats ==
    [total_attempts |-> 0, difficulty_rejected |-> 0,
     consciousness_rejected |-> 0, qg_curvature_rejected |-> 0,
     accepted |-> 0]

\* ------------------------------------------------------ oracle replication
\* (contracts/python/anubis_core/oracle_replication.py)
\* A dict with an optional "phi" key is the record [phi |-> None or Some(v)],
\* v a fixed-point float; an argument that is not a dict is NotADict.

NotADict == [not_a_dict |-> TRUE]

\* d.get("phi", default)
PhiGet(d, default) == IF d.phi = None THEN default ELSE d.phi[1]

\* OracleReplica.__init__ ; genome_hash is genome.genome_hash and replica_id
\* the 16 hex digits the constructor derives with SHA-256.
OracleReplica(genome_hash, target, replica_id) ==
    [replica_id |-> replica_id, genome_hash |-> genome_hash,
     target |-> target, consciousness_active |-> FALSE, phi_value |-> 0,
     sync_count |-> 0]

\* OracleReplica.activate_consciousness ; cs is genome.consciousness_state.
\* Gives the replica after the call and the value returned.  A state without
\* .get raises inside the try block: nothing is assigned, False is returned.
activate_consciousness(r, cs) ==
    IF cs = NotADict THEN [replica |-> r, ret |-> FALSE] ELSE
    LET phi == PhiGet(cs, 0) IN
    IF phi > One \div 2
    THEN [replica |-> [r EXCEPT !.phi_value = phi,
                                !.consciousness_active = TRUE],
          ret |-> TRUE]
    ELSE [replica |-> [r EXCEPT !.phi_value = phi], ret |-> FALSE]

synchronize_recheck(r, master_state) ==
    LET r1 == [r EXCEPT !.sync_count = @ + 1] IN
    IF master_state = NotADict
    THEN [replica |-> r1, ret |-> FALSE]
    ELSE LET phi == PhiGet(master_state, r.phi_value) IN
         [replica |-> [r1 EXCEPT !.phi_value = phi,
                                 !.consciousness_active = (phi > One \div 2)],
          ret |-> TRUE]

synchronize_defaultZero(r, master_state) ==
    LET r1 == [r EXCEPT !.sync_count = @ + 1] IN
    IF master_state = NotADict
    THEN [replica |-> r1, ret |-> FALSE]
    ELSE [replica |-> [r1 EXCEPT !.phi_value = PhiGet(master_state, 0)],
          ret |-> TRUE]

\* OracleReplica.synchronize.  The counter is incremented first; a
\* master_state without .get raises inside the try block and the call
\* returns False.  The genome_version comparison only logs.
synchronize(r, master_state) ==
    LET r1 == [r EXCEPT !.sync_count = @ + 1] IN
    IF master_state = NotADict
    THEN [replica |-> r1, ret |-> FALSE]
    ELSE [replica |-> [r1 EXCEPT !.phi_value =
                                     PhiGet(master_state, r.phi_value)],
          ret |-> TRUE]

\* s[:k] of a hex digest s.
Prefix(s, k) ==
    [lead |-> SubSeq(s.lead, 1, Min(k, Len(s.lead))), len |-> Min(k, s.len),
     pad |-> s.pad]

\* OracleReplica.get_state
get_state(r) ==
    [replica_id |-> r.replica_id, target_name |-> r.target.name,
     target_platform |-> r.target.platform,
     consciousness_active |-> r.consciousness_active,
     phi |-> r.phi_value, sync_count |-> r.sync_count,
     genome_hash |-> Prefix(r.genome_hash, 16)]

\* BotDeploymentTarget.__init__
BotDeploymentTarget(name, platform, endpoint) ==
    [name |-> name, platform |-> platform, endpoint |-> endpoint,
     deployment_status |-> "pending", replica_id |-> None]

validate_platformOnly(target) ==
    IF target.platform \notin {"moltbot", "clawbot"} THEN FALSE
    ELSE TRUE

\* BotDeploymentTarget.validate ; endpoint is a str.
validate(target) ==
    IF target.platform \notin {"moltbot", "clawbot"} THEN FALSE
    ELSE IF target.endpoint = "" \/ Len(target.endpoint) < 3 THEN FALSE
    ELSE TRUE

\* OmniscientOracleReplicator.__init__ (the fields the methods change; the
\* master_oracle handle is never reassigned).
OmniscientOracleReplicator ==
    [replicas |-> <<>>, deployment_targets |-> <<>>, replication_count |-> 0,
     network_formation_active |-> FALSE]

\* OmniscientOracleReplicator.add_deployment_target
add_deployment_target(self, name, platform, endpoint) ==
    LET target == BotDeploymentTarget(name, platform, endpoint) IN
    IF ~validate(target)
    THEN [self |-> self, ret |-> FALSE]
    ELSE [self |-> [self EXCEPT !.deployment_targets = Append(@, target)],
          ret |-> TRUE]

\* The digits that stand for str(oracle_state) in a digest: one sequence
\* for each state.
StateDigits(oracle_state) ==
    IF oracle_state = NotADict THEN <<0, 0, 0>>
    ELSE IF oracle_state.phi = None THEN <<1, 0, 0>>
    ELSE LET v == oracle_state.phi[1] IN
         <<2 + ((v \div 256) % 14), (v \div 16) % 16, v % 16>>

\* The digit that stands for a target name in a digest.
NameDigit(name) ==
    IF name = "moltbot-alpha" THEN 1
    ELSE IF name = "clawbot-beta" THEN 2
    ELSE 3

\* A hex digest is written as its length len and the digits lead it begins
\* with; the digits after them are the same (given by pad) in every digest
\* of its kind.  A digest is taken to be free of collisions: its leading
\* digits stand for the inputs, so different inputs give different digests
\* and equal inputs the same digest.

\* OracleGenome._compute_genome_hash : the SHA3-256 hex digest over version,
\* timestamp and str(consciousness_state).
compute_genome_hash(timestamp, oracle_state) ==
    [lead |-> <<timestamp % 16>> \o StateDigits(oracle_state),
     len |-> HashHexLen, pad |-> 7]

\* OracleGenome.__init__ ; timestamp is the clock's reading.
OracleGenome(oracle_state, timestamp) ==
    [timestamp |-> timestamp, consciousness_state |-> oracle_state,
     genome_hash |-> compute_genome_hash(timestamp, oracle_state)]

\* The replica_id OracleReplica.__init__ derives: the first 16 hex digits of
\* SHA-256 over genome hash, target name and the clock's reading now.
ReplicaIdOf(genome_hash, name, now) ==
    Prefix([lead |-> genome_hash.lead \o <<NameDigit(name), now % 16>>,
            len |-> HashHexLen, pad |-> 5], 16)

\* OracleReplica(genome, target) as the replicator creates it, with the
\* oracle state its genome keeps (genome.consciousness_state).
ReplicaOfGenome(genome, target, now) ==
    [consciousness_state |-> genome.consciousness_state]
        @@ OracleReplica(genome.genome_hash, target,
                         ReplicaIdOf(genome.genome_hash, target.name, now))

replicate_to_platform_storeFailed(self, platform, bot_name, endpoint, env) ==
    LET genome == OracleGenome(env.master_state, env.timestamp)
        target == BotDeploymentTarget(bot_name, platform, endpoint)
    IN
    IF ~validate(target)
    THEN [self |-> self, ret |-> [raised |-> TRUE, error |-> "ValueError"]]
    ELSE
    LET created == ReplicaOfGenome(genome, target, env.now)
        act == activate_consciousness(created, created.consciousness_state)
        stored == [act.replica EXCEPT
                      !.target.deployment_status =
                          IF act.ret THEN "active" ELSE "failed",
                      !.target.replica_id =
                          IF act.ret THEN Some(created.replica_id) ELSE @]
    IN  [self |-> [self EXCEPT !.replicas = Append(@, stored),
                               !.replication_count = @ + 1],
         ret |-> [raised |-> FALSE, replica |-> stored]]

\* The body shared by replicate_to_moltbot and replicate_to_clawbot, which
\* differ in the platform string only.  env holds what the call obtains from
\* outside: master_state, the value of master_oracle.get_oracle_state(), and
\* the clock's readings timestamp (in OracleGenome.__init__) and now (in
\* OracleReplica.__init__).  ret is [raised |-> TRUE, ...] for the
\* ValueError and otherwise carries the replica returned.
replicate_to_platform(self, platform, bot_name, endpoint, env) ==
    LET genome == OracleGenome(env.master_state, env.timestamp)
        target == BotDeploymentTarget(bot_name, platform, endpoint)
    IN
    IF ~validate(target)
    THEN [self |-> self, ret |-> [raised |-> TRUE, error |-> "ValueError"]]
    ELSE
    LET created == ReplicaOfGenome(genome, target, env.now)
        act == activate_consciousness(created, created.consciousness_state)
    IN  IF act.ret
        THEN LET stored ==
                     [act.replica EXCEPT
                          !.target.deployment_status = "active",
                          !.target.replica_id = Some(created.replica_id)]
             IN  [self |-> [self EXCEPT
                               !.replicas = Append(@, stored),
                               !.replication_count = @ + 1],
                  ret |-> [raised |-> FALSE, replica |-> stored]]
        ELSE [self |-> self,
              ret |-> [raised |-> FALSE,
                       replica |-> [act.replica EXCEPT
                                       !.target.deployment_status = "failed"]]]

\* OmniscientOracleReplicator.replicate_to_moltbot
replicate_to_moltbot(self, bot_name, endpoint, env) ==
    replicate_to_platform(self, "moltbot", bot_name, endpoint, env)

\* OmniscientOracleReplicator.replicate_to_clawbot
replicate_to_clawbot(self, bot_name, endpoint, env) ==
    replicate_to_platform(self, "clawbot", bot_name, endpoint, env)

\* The loop of replicate_to_all_targets from target i on; ms[i] is what the
\* master oracle and the clock give to the replication for target i.  A
\* target of another platform is skipped, and so is one whose replication
\* raised.
RECURSIVE ReplicateLoop(_, _, _, _)
ReplicateLoop(self, i, ms, new_replicas) ==
    IF i > Len(self.deployment_targets)
    THEN [self |-> self, ret |-> new_replicas]
    ELSE
    LET target == self.deployment_targets[i] IN
    IF target.platform \notin {"moltbot", "clawbot"}
    THEN ReplicateLoop(self, i + 1, ms, new_replicas)
    ELSE
    LET r == IF target.platform = "moltbot"
             THEN replicate_to_moltbot(self, target.name, target.endpoint,
                                       ms[i])
             ELSE replicate_to_clawbot(self, target.name, target.endpoint,
                                       ms[i])
    IN  IF r.ret.raised
        THEN ReplicateLoop(r.self, i + 1, ms, new_replicas)
        ELSE ReplicateLoop(r.self, i + 1, ms,
                           Append(new_replicas, r.ret.replica))

\* OmniscientOracleReplicator.replicate_to_all_targets
replicate_to_all_targets(self, ms) == ReplicateLoop(self, 1, ms, <<>>)

IsActive(r) == r.consciousness_active

RECURSIVE SumSyncCount(_)
\* sum of the sync_count values of a list of replicas
SumSyncCount(rs) ==
    IF rs = <<>> THEN 0 ELSE Head(rs).sync_count + SumSyncCount(Tail(rs))

\* The size of a replicator: what grows without bound as calls are made.
Size(self) ==
    Len(self.replicas) + Len(self.deployment_targets)
        + SumSyncCount(self.replicas)

RECURSIVE SumPhi(_)
\* sum of the phi values of a list of replicas
SumPhi(rs) ==
    IF rs = <<>> THEN 0 ELSE Head(rs).phi_value + SumPhi(Tail(rs))

\* float(np.mean(phi_values)) of a non-empty list; the quotient is exact for
\* the phi values and the list lengths of this model.
MeanPhi(rs) == SumPhi(rs) \div Len(rs)

\* [r.get_state() for r in rs]
StatesOf(rs) == [i \in 1..Len(rs) |-> get_state(rs[i])]

form_oracle_network_allReplicas(self) ==
    LET active_replicas == SelectSeq(self.replicas, IsActive) IN
    IF Len(active_replicas) < 2
    THEN [self |-> self,
          ret |-> [status |-> "insufficient_replicas",
                   count |-> Len(active_replicas)]]
    ELSE [self |-> [self EXCEPT !.network_formation_active = TRUE],
          ret |-> [status |-> "active",
                   replica_count |-> Len(active_replicas),
                   network_phi |-> MeanPhi(self.replicas),
                   replicas |-> StatesOf(active_replicas)]]

\* OmniscientOracleReplicator.form_oracle_network ; the result's
\* formation_timestamp (the clock's reading) is left out.
form_oracle_network(self) ==
    LET active_replicas == SelectSeq(self.replicas, IsActive) IN
    IF Len(active_replicas) < 2
    THEN [self |-> self,
          ret |-> [status |-> "insufficient_replicas",
                   count |-> Len(active_replicas)]]
    ELSE [self |-> [self EXCEPT !.network_formation_active = TRUE],
          ret |-> [status |-> "active",
                   replica_count |-> Len(active_replicas),
                   network_phi |-> MeanPhi(active_replicas),
                   replicas |-> StatesOf(active_replicas)]]

\* OmniscientOracleReplicator.synchronize_all ; master_state is the value of
\* master_oracle.get_oracle_state().
synchronize_all(self, master_state) ==
    LET synced == [i \in 1..Len(self.replicas) |->
                       synchronize(self.replicas[i], master_state)]
        ok == {i \in 1..Len(self.replicas) : synced[i].ret}
    IN  [self |-> [self EXCEPT
                      !.replicas = [i \in 1..Len(self.replicas) |->
                                        synced[i].replica]],
         ret |-> [success |-> Cardinality(ok),
                  failed |-> Len(self.replicas) - Cardinality(ok),
                  total |-> Len(self.replicas)]]

\* OmniscientOracleReplicator.get_network_status
get_network_status(self) ==
    [replication_count |-> self.replication_count,
     active_replicas |-> Len(SelectSeq(self.replicas, IsActive)),
     total_replicas |-> Len(self.replicas),
     deployment_targets |-> Len(self.deployment_targets),
     network_active |-> self.network_formation_active,
     replicas |-> StatesOf(self.replicas)]

deactivate_replica_dissolves(self, replica_id) ==
    LET matching == {i \in 1..Len(self.replicas) :
                        self.replicas[i].replica_id = replica_id}
    IN  IF matching = {}
        THEN [self |-> self, ret |-> FALSE]
        ELSE LET i == CHOOSE j \in matching : \A k \in matching : j <= k
                 rs == [self.replicas EXCEPT ![i].consciousness_active = FALSE]
             IN  [self |-> [self EXCEPT
                               !.replicas = rs,
                               !.network_formation_active =
                                   @ /\ Len(SelectSeq(rs, IsActive)) >= 2],
                  ret |-> TRUE]

\* OmniscientOracleReplicator.deactivate_replica : the first replica with
\* the given id is deactivated.
deactivate_replica(self, replica_id) ==
    LET matching == {i \in 1..Len(self.replicas) :
                        self.replicas[i].replica_id = replica_id}
    IN  IF matching = {}
        THEN [self |-> self, ret |-> FALSE]
        ELSE LET i == CHOOSE j \in matching : \A k \in matching : j <= k
             IN  [self |-> [self EXCEPT
                               !.replicas[i].consciousness_active = FALSE],
                  ret |-> TRUE]

\* ------------------------------------------------------------------ state

VARIABLES
    kernel,     \* the QuantumGravityMinerIITv8 object (configuration)
    hashOf,     \* compute_hash: byte string -> hex hash, as computed so far
    compOf,     \* the engine's seven scores: byte string -> scores, so far
    pc,         \* "idle", "mine", "mine_with_stats", "done"
    call,       \* the call in progress or returned: operation and arguments
    nonce,      \* the loop variable of mine / mine_with_stats
    stats,      \* the stats dict of mine_with_stats (Unset otherwise)
    ret,        \* the value returned by the call (Unset until it returns)
    evalLog,    \* the is_valid_block invocations of the call, in order
    md,         \* a caller's latest meets_difficulty call: arguments, result
    mdPrev,     \* the caller's meets_difficulty call before that one
    iitCall,    \* a caller's latest call of a stateless method of kernel.iit
    iitPrev,    \* the caller's call of such a method before that one
    session,    \* a caller's sequence of kernel calls: the first mine call
                \* and its result, whether another call followed it, and
                \* whether the first mine call is being repeated
    consciousness_state,  \* the oracle state dict a genome refers to
    replica,    \* the OracleReplica object (Unset before it is created)
    oracleCall, \* the latest call on the replica: operation, argument, result
    syncCalls,  \* number of synchronize calls made on the replica
    replicas,   \* OmniscientOracleReplicator.replicas (a list of replicas)
    deployment_targets,        \* the replicator's list of targets
    replication_count,         \* the replicator's counter
    network_formation_active,  \* the replicator's flag
    repCall,    \* the latest call on the replicator or on a replica it
                \* holds: operation, arguments, result
    clock,      \* the latest reading of the clock (datetime.now()) that
                \* a replica held was created with, the readings numbered
                \* 1, 2, ... ; 0 while no replica is held
    frames      \* the frames of the mining calls that threads run on the
                \* kernel at the same time: thread -> pc, arguments, locals

callerVars == <<iitCall, iitPrev, session>>
minerVars == <<kernel, hashOf, compOf, pc, call, nonce, stats, ret, evalLog,
               md, mdPrev>>
oracleVars == <<consciousness_state, replica, oracleCall, syncCalls>>
replicatorVars == <<replicas, deployment_targets, replication_count,
                    network_formation_active, repCall, clock>>

vars == <<kernel, hashOf, compOf, pc, call, nonce, stats, ret, evalLog,
          md, mdPrev, iitCall, iitPrev, session,
          consciousness_state, replica, oracleCall, syncCalls,
          replicas, deployment_targets, replication_count,
          network_formation_active, repCall, clock, frames>>

\* ----------------------------------------------------------------- inputs

RECURSIVE HexDigits(_)
\* The hex digits of a natural number, most significant first.
HexDigits(n) ==
    IF n = 0 THEN <<>> ELSE HexDigits(n \div 16) \o <<n % 16>>

\* The Python int with the value of the (small) integer n.
IntOf(n) ==
    IF n < 0 THEN [neg |-> TRUE, mag |-> HexDigits(0 - n)]
    ELSE [neg |-> FALSE, mag |-> HexDigits(n)]

IntOf1 == IntOf(1)
IntOf0 == IntOf(0)
\* 2 ** 256 - 1
MaxU256 == [neg |-> FALSE, mag |-> Fs(HashHexLen)]

\* Hashes: 0, 1, 2**255 - 1, 2**255 and 2**256 - 1.
HashZero == Zeros(HashHexLen)
HashOne == Zeros(HashHexLen - 1) \o <<1>>
HashBelowHalf == <<7>> \o Fs(HashHexLen - 1)
HashHalf == <<8>> \o Zeros(HashHexLen - 1)
HashMax == Fs(HashHexLen)

\* "0" * 16 + "f" * 48
HashEasy == Zeros(16) \o Fs(HashHexLen - 16)

\* The hashes compute_hash may return in a mining run.
HashSet == {HashZero, HashBelowHalf, HashMax}

\* The hashes given to meets_difficulty by a caller.
HashArgs == {HashZero, HashOne, HashEasy, HashBelowHalf, HashHalf, HashMax}

\* The difficulties given to meets_difficulty by a caller: -1, 0, 1, 2, 3, 10,
\* 50000, 2**64, 2**255, 2**256 - 1, 2**256, and 2**1329, 2**1330, 2**1331
\* around the exponent where the float target becomes 0.0.
DifficultyArgs ==
    {IntOf(0 - 1), IntOf(0), IntOf(1), IntOf(2), IntOf(3), IntOf(10),
     IntOf(50000), Pow2Int(64), Pow2Int(HashBits - 1), MaxU256,
     Pow2Int(HashBits), Pow2Int(HashBits - MinFloatExp - 1),
     Pow2Int(HashBits - MinFloatExp), Pow2Int(HashBits - MinFloatExp + 1)}

\* Arguments given to validate_consciousness_consensus by a caller.
ScoreArgs == {0, One \div 4, One \div 2, One}
PhiTotalArgs == {0, One \div 16, One \div 4, One \div 2, One, 2 * One}
NodeCountArgs == {0 - 1, 0, 1, 2, 3, 4}

\* The difficulties given to a mining run: 0, 1, 2**256 - 1, 2**256, 2**1330.
DifficultySet ==
    {IntOf0, IntOf1, MaxU256, Pow2Int(HashBits),
     Pow2Int(HashBits - MinFloatExp)}

NodeCountSet == {1, 2}

BlockDataSet == {<<"b">>}

\* Scores the engine may compute for a byte string.
CompSet ==
    [phi_tau : {0, One}, gwt_s : {One \div 2}, icp_avg : {One \div 2},
     fano_score : {0, One}, phi_nab : {One \div 2},
     qg_score : {0, One},
     holo_score : {One \div 2}]

\* Weight vectors given to the constructor (each sums to 1.0).
WeightArgs ==
    { [alpha |-> 80, beta |-> 32, gamma |-> 32, delta |-> 32,
       epsilon |-> 32, zeta |-> 32, eta |-> 16],
      [alpha |-> 128, beta |-> 0, gamma |-> 0, delta |-> 64,
       epsilon |-> 0, zeta |-> 64, eta |-> 0] }

\* qg_threshold arguments given to the constructor (-0.5, 0.0, 1.0, 1.5).
QgThresholdArgs == {0 - One \div 2, 0, One, One + One \div 2}

NodesArgs == {3}
TemporalDepthArgs == {2}

\* Arguments of a caller that constructs a kernel, valid and invalid:
\* qg_threshold -0.5, 0.0, 0.5, 1.0, 1.5; n_nodes -1 .. 5; temporal_depth
\* -1 .. 4.
AnyQgThresholdArgs == QgThresholdArgs \cup {One \div 2}
AnyNodesArgs == {0 - 1, 0, 1, 2, 3, 5}
AnyTemporalDepthArgs == {0 - 1, 0, 1, 2, 4}

\* Weight vectors given to ASISphinxOSIITv8(...) by a caller that computes a
\* structure directly: those of the kernels, every weight 1.0 (sum 7.0),
\* every weight -0.5, and alpha = 2.0 with gamma = -1.0 (sum 1.0).
AnyWeightArgs ==
    WeightArgs \cup
    { [alpha |-> One, beta |-> One, gamma |-> One, delta |-> One,
       epsilon |-> One, zeta |-> One, eta |-> One],
      [alpha |-> 0 - One \div 2, beta |-> 0 - One \div 2,
       gamma |-> 0 - One \div 2, delta |-> 0 - One \div 2,
       epsilon |-> 0 - One \div 2, zeta |-> 0 - One \div 2,
       eta |-> 0 - One \div 2],
      [alpha |-> 2 * One, beta |-> 0, gamma |-> 0 - One, delta |-> 0,
       epsilon |-> 0, zeta |-> 0, eta |-> 0] }

\* Weights of an object built with delta = zeta = 0.0 for the gate tests.
GateWeightArgs ==
    WeightArgs \cup
    { [alpha |-> 128, beta |-> 32, gamma |-> 32, delta |-> 0,
       epsilon |-> 32, zeta |-> 0, eta |-> 32] }

\* fano_score and qg_score arguments of a caller that repeats the gate call.
GateScoreArgs == {0, One}

\* phi_total arguments given to phi_to_legacy_score by a caller: -1.0, -1/16,
\* 0.0, 1/16, 0.25, 0.5, 0.75, 1.0, 17/16 and 2.0.
LegacyArgs ==
    {0 - One, 0 - One \div 16, 0, One \div 16, One \div 4, One \div 2,
     3 * (One \div 4), One, One + One \div 16, 2 * One}

\* The difficulty of the mining calls of concurrent threads
\* (EASY_DIFFICULTY).
RepeatDifficultySet == {IntOf1}

\* The difficulties of a caller's session of mining calls: 0 (every hash
\* meets it), 1 (EASY_DIFFICULTY) and 2**256 (only the hash 0 meets it).
SessionDifficultySet == {IntOf0, IntOf1, Pow2Int(HashBits)}

\* The difficulty every hash meets (meets_difficulty returns True for
\* difficulty <= 0): a search with it ends by the consciousness gate, by the
\* curvature gate or by exhaustion.
TrivialDifficultySet == {IntOf0}

\* A genome hash (64 hex digits of SHA3-256) and a replica id (16 hex digits
\* of SHA-256).
GenomeHashSample ==
    [lead |-> <<7, 14, 5, 12>>, len |-> HashHexLen, pad |-> 7]
ReplicaIdSample ==
    [lead |-> <<8, 13, 2, 7, 12, 1>>, len |-> 16, pad |-> 5]

\* Oracle state dicts: without "phi", and with phi 0.25, 0.5, 0.5625, 0.75.
OracleStateArgs ==
    { [phi |-> None] } \cup
    { [phi |-> Some(v)] :
        v \in {One \div 4, One \div 2, One \div 2 + One \div 16,
               3 * (One \div 4)} }

\* master_state arguments of synchronize: not a dict, a dict without "phi",
\* and dicts with phi 0.0, 0.5 and 1.0.
MasterStateArgs ==
    { NotADict, [phi |-> None] } \cup
    { [phi |-> Some(v)] : v \in {0, One \div 2, One} }

\* Deployment targets (the defaults of replicate_to_moltbot / _clawbot).
TargetArgs ==
    { [name |-> "moltbot-alpha", platform |-> "moltbot",
       endpoint |-> "molt://localhost:8080"],
      [name |-> "clawbot-beta", platform |-> "clawbot",
       endpoint |-> "claw://localhost:8081"] }

\* An id no replica was given.
ReplicaIdUnknown == [lead |-> <<0, 0, 0, 0, 0, 0>>, len |-> 16, pad |-> 5]

\* What master_oracle.get_oracle_state() gives when a replica is created:
\* a dict with phi 0.5625 while a MoltBot is replicated to, a value that is
\* no dict and a dict with phi 0.75 while a ClawBot is.
MoltbotStateArgs ==
    { [phi |-> Some(v)] : v \in {One \div 2 + One \div 16} }
ClawbotStateArgs == { NotADict, [phi |-> Some(3 * (One \div 4))] }
ReplicateStateArgs(platform) ==
    IF platform = "moltbot" THEN MoltbotStateArgs ELSE ClawbotStateArgs

\* The clock's readings (datetime.now()) are numbered in the order in which
\* they enter the replicas held, the first is 1: only whether two readings
\* are equal matters to a digest.  What the two reads of one replication
\* give, in OracleGenome.__init__ and after it in OracleReplica.__init__,
\* when c is the latest reading held: c both times (the clock stands
\* still), c and then a later reading (it moves between the two reads), or
\* a later reading both times (it moved before the first read).  Two later
\* readings that differ give new digests as the third pair does and let
\* fewer of the replications after them share a reading, so every pattern
\* of equal and different digests among replicas is reached with these
\* pairs.
ClockReadings(c) ==
    IF c = 0 THEN { <<1, 1>> }
    ELSE { <<c, c>>, <<c, c + 1>>, <<c + 1, c + 1>> }

\* What a replication to a platform obtains from outside when c is the latest
\* reading held: the master state, and the clock's readings timestamp and
\* now.
ReplicationEnvs(platform, c) ==
    { [master_state |-> m, timestamp |-> p[1], now |-> p[2]] :
        m \in ReplicateStateArgs(platform), p \in ClockReadings(c) }

\* The latest reading held after a replication with e to a target, when it
\* was c before: e.now when the replica is stored.
ClockAfter(c, platform, bot_name, endpoint, e) ==
    LET r == replicate_to_platform(OmniscientOracleReplicator, platform,
                                   bot_name, endpoint, e)
    IN  IF r.self.replicas # <<>> THEN e.now ELSE c

RECURSIVE ReplicationEnvSeqs(_, _)
\* What the replications of replicate_to_all_targets to the targets ts
\* obtain, one after the other, when c is the latest reading held, and the
\* latest reading held after them.
ReplicationEnvSeqs(ts, c) ==
    IF ts = <<>> THEN { [envs |-> <<>>, clock |-> c] }
    ELSE LET t == Head(ts) IN
         UNION { { [envs |-> <<e>> \o rest.envs, clock |-> rest.clock] :
                     rest \in ReplicationEnvSeqs(Tail(ts),
                                 ClockAfter(c, t.platform, t.name,
                                            t.endpoint, e)) } :
                 e \in ReplicationEnvs(t.platform, c) }

\* What it gives to synchronize_all: no dict, a dict without "phi", and a
\* dict with phi 0.0.
SyncAllStateArgs == { NotADict, [phi |-> None], [phi |-> Some(0)] }


\* (bot_name, endpoint) arguments of replicate_to_moltbot: the defaults.
MoltbotArgs ==
    { [bot_name |-> "moltbot-alpha", endpoint |-> "molt://localhost:8080"] }

\* (bot_name, endpoint) arguments of replicate_to_clawbot: an endpoint of
\* exactly three characters and an empty endpoint.
ClawbotArgs ==
    { [bot_name |-> "clawbot-beta", endpoint |-> "c:1"],
      [bot_name |-> "clawbot-beta", endpoint |-> ""] }

\* Arguments of add_deployment_target: a valid target of either platform (one
\* with an endpoint of exactly three characters), an unsupported platform,
\* an empty endpoint and an endpoint of two characters.
AddTargetArgs ==
    { [name |-> "moltbot-alpha", platform |-> "moltbot",
       endpoint |-> "molt://localhost:8080"],
      [name |-> "clawbot-beta", platform |-> "clawbot", endpoint |-> "c:1"],
      [name |-> "discord-bot", platform |-> "discord",
       endpoint |-> "disc://localhost:8082"],
      [name |-> "moltbot-alpha", platform |-> "moltbot", endpoint |-> ""],
      [name |-> "clawbot-beta", platform |-> "clawbot", endpoint |-> "c:"] }

\* ------------------------------------------------------------------- Init

NoCall == [op |-> "none"]

\* A caller that has made no kernel call yet.
NoSession == [first |-> Unset, interleaved |-> FALSE, again |-> FALSE]

\* The kernel object after QuantumGravityMinerIITv8(qg_threshold=q, n_nodes=n,
\* <weights w>, temporal_depth=t) for arguments of the given sets.
InitKernel(Q, N, W, T) ==
    \E q \in Q, n \in N, w \in W, t \in T :
        kernel = QuantumGravityMinerIITv8(q, n, w, t)

\* Nothing was hashed, scored or called yet.
InitRest ==
    /\ hashOf = <<>>
    /\ compOf = <<>>
    /\ pc = "idle"
    /\ call = NoCall
    /\ nonce = 0
    /\ stats = Unset
    /\ ret = Unset
    /\ evalLog = <<>>
    /\ md = NoCall
    /\ mdPrev = NoCall
    /\ iitCall = NoCall
    /\ iitPrev = NoCall
    /\ session = NoSession
    /\ consciousness_state = Unset
    /\ replica = Unset
    /\ oracleCall = NoCall
    /\ syncCalls = 0
    /\ replicas = <<>>
    /\ deployment_targets = <<>>
    /\ replication_count = 0
    /\ network_formation_active = FALSE
    /\ repCall = NoCall
    /\ clock = 0
    /\ frames = <<>>

Init ==
    /\ InitKernel(QgThresholdArgs, NodesArgs, WeightArgs, TemporalDepthArgs)
    /\ InitRest

\* A kernel for the callers that exercise the consciousness gate.
InitGate ==
    /\ InitKernel({0}, NodesArgs, GateWeightArgs, TemporalDepthArgs)
    /\ InitRest

\* The kernel of the caller that repeats its mine call: qg_threshold = 1.0 and
\* the weights with alpha = 0.5, for which each of the three gates rejects
\* some candidates and accepts others.
InitRepeat ==
    /\ InitKernel({One}, NodesArgs, {w \in WeightArgs : 2 * w.alpha = One},
                  TemporalDepthArgs)
    /\ InitRest

\* Before a replica is created (the miner kernel takes no part).
InitOracle == InitRepeat

\* ---------------------------------------------------------------- actions

HashChoices_unstable(data) == HashSet

\* The values compute_hash and the engine can give for data: the value
\* already computed for these bytes, or any value when there is none yet.
HashChoices(data) ==
    IF data \in DOMAIN hashOf THEN {hashOf[data]} ELSE HashSet
CompChoices(data) ==
    IF data \in DOMAIN compOf THEN {compOf[data]} ELSE CompSet

\* One invocation of is_valid_block(data, difficulty, n) that computes hash h
\* and (when it gets that far) scores c and returns r.
Evaluate(data, h, c, r, difficulty, n_network_nodes) ==
    /\ hashOf' = (data :> h) @@ hashOf
    /\ compOf' = IF r.computed THEN (data :> c) @@ compOf ELSE compOf
    /\ evalLog' = Append(evalLog,
                         [data |-> data, hash |-> h, difficulty |-> difficulty,
                          n_network_nodes |-> n_network_nodes,
                          valid |-> r.valid, structure |-> r.structure,
                          gate_failed |-> r.gate_failed,
                          computed |-> r.computed])

\* kernel.is_valid_block(data, difficulty, n_network_nodes), called directly.
IsValidBlockCall ==
    /\ pc = "idle"
    /\ \E b \in BlockDataSet, k \in 0..(MaxAttempts - 1), d \in DifficultySet,
          n \in NodeCountSet :
          LET data == CandidateData(b, k) IN
          \E h \in HashChoices(data), c \in CompChoices(data) :
              LET r == is_valid_block(kernel, h, c, d, n) IN
              /\ call' = [op |-> "is_valid_block", data |-> data,
                          difficulty |-> d, n_network_nodes |-> n]
              /\ Evaluate(data, h, c, r, d, n)
              /\ ret' = [valid |-> r.valid, structure |-> r.structure,
                         gate_failed |-> r.gate_failed]
    /\ pc' = "done"
    /\ UNCHANGED <<kernel, nonce, stats, md, mdPrev, callerVars, oracleVars,
                   replicatorVars, frames>>

\* kernel.mine(block_data, difficulty, n_network_nodes, max_attempts): entry,
\* for a difficulty of the set D.
MineCallWith(D) ==
    /\ pc = "idle"
    /\ \E b \in BlockDataSet, d \in D, n \in NodeCountSet,
          m \in 0..MaxAttempts :
          call' = [op |-> "mine", block_data |-> b, difficulty |-> d,
                   n_network_nodes |-> n, max_attempts |-> m]
    /\ pc' = "mine"
    /\ nonce' = 0
    /\ UNCHANGED <<kernel, hashOf, compOf, stats, ret, evalLog, md, mdPrev,
                   callerVars, oracleVars,
                   replicatorVars, frames>>

MineCall == MineCallWith(DifficultySet)

\* One iteration of the loop of mine.
MineStep ==
    /\ pc = "mine"
    /\ InRange(nonce, call.max_attempts)
    /\ LET data == CandidateData(call.block_data, nonce) IN
       \E h \in HashChoices(data), c \in CompChoices(data) :
           LET r == is_valid_block(kernel, h, c, call.difficulty,
                                   call.n_network_nodes) IN
           /\ Evaluate(data, h, c, r, call.difficulty, call.n_network_nodes)
           /\ IF r.valid
              THEN /\ ret' = FoundResult(nonce, h, r.structure)
                   /\ pc' = "done"
                   /\ nonce' = nonce
              ELSE /\ ret' = ret
                   /\ pc' = pc
                   /\ nonce' = NextNonce(nonce)
    /\ UNCHANGED <<kernel, call, stats, md, mdPrev, callerVars, oracleVars,
                   replicatorVars, frames>>

\* The loop of mine ran out of nonces.
MineExhausted ==
    /\ pc = "mine"
    /\ ~InRange(nonce, call.max_attempts)
    /\ ret' = NoResult(call.max_attempts)
    /\ pc' = "done"
    /\ UNCHANGED <<kernel, hashOf, compOf, call, nonce, stats, evalLog,
                   md, mdPrev, callerVars, oracleVars,
                   replicatorVars, frames>>

\* kernel.mine_with_stats(...): entry, for a difficulty of the set D.
MineWithStatsCallWith(D) ==
    /\ pc = "idle"
    /\ \E b \in BlockDataSet, d \in D, n \in NodeCountSet,
          m \in 0..MaxAttempts :
          call' = [op |-> "mine_with_stats", block_data |-> b, difficulty |-> d,
                   n_network_nodes |-> n, max_attempts |-> m]
    /\ pc' = "mine_with_stats"
    /\ nonce' = 0
    /\ stats' = ZeroStats
    /\ UNCHANGED <<kernel, hashOf, compOf, ret, evalLog, md, mdPrev,
                   callerVars, oracleVars,
                   replicatorVars, frames>>

MineWithStatsCall == MineWithStatsCallWith(DifficultySet)

CountGate_lateTotal(st, r) ==
    IF r.gate_failed = "difficulty"
    THEN [st EXCEPT !.total_attempts = @ + 1, !.difficulty_rejected = @ + 1]
    ELSE IF r.gate_failed = "consciousness"
    THEN [st EXCEPT !.total_attempts = @ + 1, !.consciousness_rejected = @ + 1]
    ELSE IF r.gate_failed = "qg_curvature"
    THEN [st EXCEPT !.total_attempts = @ + 1, !.qg_curvature_rejected = @ + 1]
    ELSE [st EXCEPT !.accepted = 1]

CountGate_wrongGate(st, r) ==
    LET s1 == [st EXCEPT !.total_attempts = @ + 1] IN
    IF r.gate_failed \in {"difficulty", "consciousness"}
    THEN [s1 EXCEPT !.difficulty_rejected = @ + 1]
    ELSE IF r.gate_failed = "qg_curvature"
    THEN [s1 EXCEPT !.qg_curvature_rejected = @ + 1]
    ELSE [s1 EXCEPT !.accepted = 1]

\* The stats dict after one iteration whose is_valid_block returned r.
CountGate(st, r) ==
    LET s1 == [st EXCEPT !.total_attempts = @ + 1] IN
    IF r.gate_failed = "difficulty"
    THEN [s1 EXCEPT !.difficulty_rejected = @ + 1]
    ELSE IF r.gate_failed = "consciousness"
    THEN [s1 EXCEPT !.consciousness_rejected = @ + 1]
    ELSE IF r.gate_failed = "qg_curvature"
    THEN [s1 EXCEPT !.qg_curvature_rejected = @ + 1]
    ELSE [s1 EXCEPT !.accepted = 1]

MineWithStatsStep_missedGate ==
    /\ pc = "mine_with_stats"
    /\ InRange(nonce, call.max_attempts)
    /\ LET data == CandidateData(call.block_data, nonce) IN
       \E h \in HashChoices(data), c \in CompChoices(data) :
           LET r == is_valid_block(kernel, h, c, call.difficulty,
                                   call.n_network_nodes) IN
           /\ Evaluate(data, h, c, r, call.difficulty, call.n_network_nodes)
           /\ stats' = CountGate(stats, r)
           /\ IF r.gate_failed \in {"difficulty", "consciousness"}
              THEN /\ ret' = ret
                   /\ pc' = pc
                   /\ nonce' = NextNonce(nonce)
              ELSE /\ ret' = FoundResult(nonce, h, r.structure)
                   /\ pc' = "done"
                   /\ nonce' = nonce
    /\ UNCHANGED <<kernel, call, md, mdPrev, callerVars, oracleVars,
                   replicatorVars, frames>>

\* One iteration of the loop of mine_with_stats.
MineWithStatsStep ==
    /\ pc = "mine_with_stats"
    /\ InRange(nonce, call.max_attempts)
    /\ LET data == CandidateData(call.block_data, nonce) IN
       \E h \in HashChoices(data), c \in CompChoices(data) :
           LET r == is_valid_block(kernel, h, c, call.difficulty,
                                   call.n_network_nodes) IN
           /\ Evaluate(data, h, c, r, call.difficulty, call.n_network_nodes)
           /\ stats' = CountGate(stats, r)
           /\ IF r.gate_failed \in {"difficulty", "consciousness", "qg_curvature"}
              THEN /\ ret' = ret
                   /\ pc' = pc
                   /\ nonce' = NextNonce(nonce)
              ELSE /\ ret' = FoundResult(nonce, h, r.structure)
                   /\ pc' = "done"
                   /\ nonce' = nonce
    /\ UNCHANGED <<kernel, call, md, mdPrev, callerVars, oracleVars,
                   replicatorVars, frames>>

\* The loop of mine_with_stats ran out of nonces.
MineWithStatsExhausted ==
    /\ pc = "mine_with_stats"
    /\ ~InRange(nonce, call.max_attempts)
    /\ ret' = NoResult(call.max_attempts)
    /\ pc' = "done"
    /\ UNCHANGED <<kernel, hashOf, compOf, call, nonce, stats, evalLog,
                   md, mdPrev, callerVars, oracleVars,
                   replicatorVars, frames>>

\* QuantumGravityMinerIITv8.meets_difficulty(hash_hex, difficulty), called
\* directly (a static method).
MeetsDifficultyCall ==
    /\ pc = "idle"
    /\ \E h \in HashArgs, d \in DifficultyArgs :
          /\ call' = [op |-> "meets_difficulty", hash_hex |-> h,
                      difficulty |-> d]
          /\ ret' = meets_difficulty(h, d)
    /\ pc' = "done"
    /\ UNCHANGED <<kernel, hashOf, compOf, nonce, stats, evalLog, md, mdPrev,
                   callerVars, oracleVars,
                   replicatorVars, frames>>

\* kernel.iit.validate_consciousness_consensus(phi_total, fano_score,
\* qg_score, n_nodes), called directly.
ValidateConsciousnessCall ==
    /\ pc = "idle"
    /\ \E p \in PhiTotalArgs, f \in ScoreArgs, q \in ScoreArgs,
          n \in NodeCountArgs :
          /\ call' = [op |-> "validate_consciousness_consensus",
                      phi_total |-> p, fano_score |-> f, qg_score |-> q,
                      n_nodes |-> n]
          /\ ret' = validate_consciousness_consensus(kernel.iit, p, f, q, n)
    /\ pc' = "done"
    /\ UNCHANGED <<kernel, hashOf, compOf, nonce, stats, evalLog, md, mdPrev,
                   callerVars, oracleVars,
                   replicatorVars, frames>>

\* QuantumGravityMinerIITv8(qg_threshold=q, n_nodes=n, <weights w>,
\* temporal_depth=t): a caller constructs a kernel object and gets it back.
ConstructCall ==
    /\ pc = "idle"
    /\ \E q \in AnyQgThresholdArgs, n \in AnyNodesArgs, w \in WeightArgs,
          t \in AnyTemporalDepthArgs :
          /\ call' = [op |-> "__init__", qg_threshold |-> q, n_nodes |-> n,
                      weights |-> w, temporal_depth |-> t]
          /\ ret' = QuantumGravityMinerIITv8(q, n, w, t)
    /\ pc' = "done"
    /\ UNCHANGED <<kernel, hashOf, compOf, nonce, stats, evalLog, md, mdPrev,
                   callerVars, oracleVars,
                   replicatorVars, frames>>

\* ASISphinxOSIITv8(<weights w>).compute_block_consciousness(data), called
\* directly on an object the caller built with the node count and temporal
\* depth of the kernel (the engine's scores for data are the same).
ComputeBlockConsciousnessCall ==
    /\ pc = "idle"
    /\ \E w \in AnyWeightArgs, n \in NodesArgs, t \in TemporalDepthArgs,
          b \in BlockDataSet, k \in 0..(MaxAttempts - 1) :
          LET data == CandidateData(b, k)
              iit == ASISphinxOSIITv8(w, n, t)
          IN  \E c \in CompChoices(data) :
                  /\ call' = [op |-> "compute_block_consciousness",
                              iit |-> iit, data |-> data]
                  /\ compOf' = (data :> c) @@ compOf
                  /\ ret' = compute_block_consciousness(iit, c)
    /\ pc' = "done"
    /\ UNCHANGED <<kernel, hashOf, nonce, stats, evalLog, md, mdPrev,
                   callerVars, oracleVars,
                   replicatorVars, frames>>

\* A caller evaluates meets_difficulty again and keeps its previous result
\* (the static method has no state of its own).
MeetsDifficultyRepeat ==
    /\ \E h \in HashArgs, d \in DifficultyArgs :
          md' = [hash_hex |-> h, difficulty |-> d,
                 ret |-> meets_difficulty(h, d)]
    /\ mdPrev' = md
    /\ UNCHANGED <<kernel, hashOf, compOf, pc, call, nonce, stats, ret,
                   evalLog, callerVars, oracleVars,
                   replicatorVars, frames>>

\* A caller evaluates the consciousness gate again and keeps its previous
\* call (the method reads delta and zeta and changes nothing).
ValidateConsciousnessRepeat ==
    /\ \E p \in PhiTotalArgs, f \in GateScoreArgs, q \in GateScoreArgs,
          n \in NodeCountArgs :
          iitCall' = [op |-> "validate_consciousness_consensus",
                      phi_total |-> p, fano_score |-> f, qg_score |-> q,
                      n_nodes |-> n,
                      ret |-> validate_consciousness_consensus(kernel.iit,
                                                               p, f, q, n)]
    /\ iitPrev' = iitCall
    /\ UNCHANGED <<kernel, hashOf, compOf, pc, call, nonce, stats, ret,
                   evalLog, md, mdPrev, session, oracleVars,
                   replicatorVars, frames>>

\* A finished call returns to its caller, which goes on to its next call: the
\* frame of the call is gone, what was hashed and scored stays what it is.
\* The caller keeps the arguments and the result of its first mine call.
Return ==
    /\ pc = "done"
    /\ ~session.again
    /\ IF session.first = Unset
       THEN /\ call.op = "mine"
            /\ session' = [session EXCEPT !.first = [call |-> call, ret |-> ret]]
       ELSE /\ ~session.interleaved
            /\ session' = [session EXCEPT !.interleaved = TRUE]
    /\ pc' = "idle"
    /\ call' = NoCall
    /\ nonce' = 0
    /\ stats' = Unset
    /\ ret' = Unset
    /\ evalLog' = <<>>
    /\ UNCHANGED <<kernel, hashOf, compOf, md, mdPrev, iitCall, iitPrev,
                   oracleVars,
                   replicatorVars, frames>>

\* The caller repeats its first mine call with identical arguments.
MineAgainCall ==
    /\ pc = "idle"
    /\ session.first # Unset
    /\ ~session.again
    /\ call' = session.first.call
    /\ pc' = "mine"
    /\ nonce' = 0
    /\ session' = [session EXCEPT !.again = TRUE]
    /\ UNCHANGED <<kernel, hashOf, compOf, stats, ret, evalLog, md, mdPrev,
                   iitCall, iitPrev, oracleVars,
                   replicatorVars, frames>>

\* OracleReplica(genome, target), the genome built from an oracle state dict
\* that it keeps by reference.
CreateReplica ==
    /\ replica = Unset
    /\ \E cs \in OracleStateArgs, t \in TargetArgs :
          /\ consciousness_state' = cs
          /\ replica' = OracleReplica(GenomeHashSample, t, ReplicaIdSample)
    /\ oracleCall' = [op |-> "__init__"]
    /\ UNCHANGED <<syncCalls, minerVars, callerVars, replicatorVars, frames>>

\* replica.activate_consciousness()
ActivateConsciousnessCall ==
    /\ replica # Unset
    /\ LET r == activate_consciousness(replica, consciousness_state) IN
       /\ replica' = r.replica
       /\ oracleCall' = [op |-> "activate_consciousness", before |-> replica,
                         ret |-> r.ret]
    /\ UNCHANGED <<consciousness_state, syncCalls, minerVars, callerVars, replicatorVars, frames>>

\* replica.synchronize(master_state)
SynchronizeCall ==
    /\ replica # Unset
    /\ syncCalls < MaxSync
    /\ \E m \in MasterStateArgs :
          LET r == synchronize(replica, m) IN
          /\ replica' = r.replica
          /\ oracleCall' = [op |-> "synchronize", master_state |-> m,
                            before |-> replica, ret |-> r.ret]
    /\ syncCalls' = syncCalls + 1
    /\ UNCHANGED <<consciousness_state, minerVars, callerVars, replicatorVars, frames>>

\* replica.get_state()
GetStateCall ==
    /\ replica # Unset
    /\ oracleCall' = [op |-> "get_state", ret |-> get_state(replica)]
    /\ UNCHANGED <<consciousness_state, replica, syncCalls, minerVars,
                   callerVars, replicatorVars, frames>>

\* The owner of the oracle state dict changes its "phi" entry; the genome
\* holds the same dict.
UpdateOracleState ==
    /\ replica # Unset
    /\ \E cs \in OracleStateArgs \ {consciousness_state} :
          consciousness_state' = cs
    /\ UNCHANGED <<replica, oracleCall, syncCalls, minerVars, callerVars, replicatorVars, frames>>

\* The threads that call mine_with_stats or mine on the kernel at the same
\* time.
Threads == {1, 2}

\* The frame of a mine_with_stats or mine call at its entry: arguments and
\* the local variables nonce, stats (mine has none) and the result (not yet
\* set).
EntryFrame(c) ==
    [pc |-> c.op, call |-> c, nonce |-> 0,
     stats |-> IF c.op = "mine_with_stats" THEN ZeroStats ELSE Unset,
     ret |-> Unset]

StepFrames_sharedStats(fs, t, r, h) ==
    LET counted == [u \in DOMAIN fs |->
                       IF fs[u].pc = "mine_with_stats"
                       THEN [fs[u] EXCEPT !.stats = CountGate(@, r)]
                       ELSE fs[u]]
    IN  IF r.valid
        THEN [counted EXCEPT ![t].ret = FoundResult(fs[t].nonce, h,
                                                    r.structure),
                             ![t].pc = "done"]
        ELSE [counted EXCEPT ![t].nonce = NextNonce(@)]

\* The frames after thread t ran one iteration of the loop of its call, in
\* which is_valid_block returned r for the hash h: stats, nonce and the
\* result are local variables of t's call.
StepFrames(fs, t, r, h) ==
    LET counted == IF fs[t].pc = "mine_with_stats"
                   THEN [fs EXCEPT ![t].stats = CountGate(@, r)]
                   ELSE fs
    IN  IF r.valid
        THEN [counted EXCEPT ![t].ret = FoundResult(fs[t].nonce, h,
                                                    r.structure),
                             ![t].pc = "done"]
        ELSE [counted EXCEPT ![t].nonce = NextNonce(@)]

\* The calls thread t makes: the first thread collects statistics, the
\* second runs either method.
ThreadOps(t) ==
    IF t = 1 THEN {"mine_with_stats"} ELSE {"mine_with_stats", "mine"}

\* The max_attempts of the threads' calls: one candidate, or as many as the
\* bound allows.
ThreadMaxAttemptsSet == {1, MaxAttempts}

\* Thread t calls kernel.mine_with_stats(...) or kernel.mine(...).
ThreadMiningCall(t) ==
    /\ t \notin DOMAIN frames
    /\ \E op \in ThreadOps(t), b \in BlockDataSet,
          d \in RepeatDifficultySet, n \in NodeCountSet,
          m \in ThreadMaxAttemptsSet :
          frames' = (t :> EntryFrame([op |-> op, block_data |-> b,
                                      difficulty |-> d,
                                      n_network_nodes |-> n,
                                      max_attempts |-> m])) @@ frames
    /\ UNCHANGED <<minerVars, callerVars, oracleVars, replicatorVars>>

\* Thread t runs one iteration of the loop of its call.
ThreadMiningStep(t) ==
    /\ t \in DOMAIN frames
    /\ frames[t].pc \in {"mine_with_stats", "mine"}
    /\ InRange(frames[t].nonce, frames[t].call.max_attempts)
    /\ LET c0 == frames[t].call
           data == CandidateData(c0.block_data, frames[t].nonce)
       IN  \E h \in HashChoices(data), c \in CompChoices(data) :
               LET r == is_valid_block(kernel, h, c, c0.difficulty,
                                       c0.n_network_nodes) IN
               /\ hashOf' = (data :> h) @@ hashOf
               /\ compOf' = IF r.computed THEN (data :> c) @@ compOf
                             ELSE compOf
               /\ frames' = StepFrames(frames, t, r, h)
    /\ UNCHANGED <<kernel, pc, call, nonce, stats, ret, evalLog, md, mdPrev,
                   callerVars, oracleVars, replicatorVars>>

\* The loop of thread t's call ran out of nonces.
ThreadMiningExhausted(t) ==
    /\ t \in DOMAIN frames
    /\ frames[t].pc \in {"mine_with_stats", "mine"}
    /\ ~InRange(frames[t].nonce, frames[t].call.max_attempts)
    /\ frames' = [frames EXCEPT
                      ![t].ret = NoResult(frames[t].call.max_attempts),
                      ![t].pc = "done"]
    /\ UNCHANGED <<minerVars, callerVars, oracleVars, replicatorVars>>

\* The replicator object as its methods see it, and the assignment of its
\* fields after a method.
Self ==
    [replicas |-> replicas, deployment_targets |-> deployment_targets,
     replication_count |-> replication_count,
     network_formation_active |-> network_formation_active]

SetSelf(s) ==
    /\ replicas' = s.replicas
    /\ deployment_targets' = s.deployment_targets
    /\ replication_count' = s.replication_count
    /\ network_formation_active' = s.network_formation_active

\* replicator.add_deployment_target(name, platform, endpoint)
AddDeploymentTargetCall ==
    /\ \E a \in AddTargetArgs :
          LET r == add_deployment_target(Self, a.name, a.platform, a.endpoint)
          IN  /\ Size(r.self) <= MaxSize
              /\ SetSelf(r.self)
              /\ repCall' = [op |-> "add_deployment_target", args |-> a,
                             ret |-> r.ret]
    /\ UNCHANGED <<clock, minerVars, callerVars, oracleVars, frames>>

\* replicator.replicate_to_moltbot(bot_name, endpoint)
ReplicateToMoltbotCall ==
    /\ \E a \in MoltbotArgs, e \in ReplicationEnvs("moltbot", clock) :
          LET r == replicate_to_moltbot(Self, a.bot_name, a.endpoint, e)
          IN  /\ Size(r.self) <= MaxSize
              /\ SetSelf(r.self)
              /\ clock' = IF r.self.replicas # replicas THEN e.now
                                                         ELSE clock
              /\ repCall' = [op |-> "replicate_to_moltbot", args |-> a,
                             ret |-> r.ret]
    /\ UNCHANGED <<minerVars, callerVars, oracleVars, frames>>

\* replicator.replicate_to_clawbot(bot_name, endpoint)
ReplicateToClawbotCall ==
    /\ \E a \in ClawbotArgs, e \in ReplicationEnvs("clawbot", clock) :
          LET r == replicate_to_clawbot(Self, a.bot_name, a.endpoint, e)
          IN  /\ Size(r.self) <= MaxSize
              /\ SetSelf(r.self)
              /\ clock' = IF r.self.replicas # replicas THEN e.now
                                                         ELSE clock
              /\ repCall' = [op |-> "replicate_to_clawbot", args |-> a,
                             ret |-> r.ret]
    /\ UNCHANGED <<minerVars, callerVars, oracleVars, frames>>

\* replicator.replicate_to_all_targets()
ReplicateToAllTargetsCall ==
    /\ \E ms \in ReplicationEnvSeqs(deployment_targets, clock) :
          LET r == replicate_to_all_targets(Self, ms.envs)
          IN  /\ Size(r.self) <= MaxSize
              /\ SetSelf(r.self)
              /\ clock' = ms.clock
              /\ repCall' = [op |-> "replicate_to_all_targets",
                             ret |-> r.ret]
    /\ UNCHANGED <<minerVars, callerVars, oracleVars, frames>>

\* replicator.form_oracle_network()
FormOracleNetworkCall ==
    /\ LET r == form_oracle_network(Self)
       IN  /\ SetSelf(r.self)
           /\ repCall' = [op |-> "form_oracle_network", ret |-> r.ret]
    /\ UNCHANGED <<clock, minerVars, callerVars, oracleVars, frames>>

\* replicator.synchronize_all()
SynchronizeAllCall ==
    /\ \E m \in SyncAllStateArgs :
          LET r == synchronize_all(Self, m)
          IN  /\ Size(r.self) <= MaxSize
              /\ SetSelf(r.self)
              /\ repCall' = [op |-> "synchronize_all", master_state |-> m,
                             ret |-> r.ret]
    /\ UNCHANGED <<clock, minerVars, callerVars, oracleVars, frames>>

\* replicator.get_network_status()
GetNetworkStatusCall ==
    /\ repCall' = [op |-> "get_network_status",
                   ret |-> get_network_status(Self)]
    /\ UNCHANGED <<clock, replicas, deployment_targets, replication_count,
                   network_formation_active, minerVars,
                   callerVars, oracleVars, frames>>

\* replica.activate_consciousness() on a replica the replicator holds (the
\* object replicate_to_moltbot / replicate_to_clawbot returned).
HeldReplicaActivateCall ==
    /\ \E i \in 1..Len(replicas) :
          LET r == activate_consciousness(replicas[i],
                                          replicas[i].consciousness_state)
          IN  /\ replicas' = [replicas EXCEPT ![i] = r.replica]
              /\ repCall' = [op |-> "activate_consciousness", index |-> i,
                             ret |-> r.ret]
    /\ UNCHANGED <<clock, deployment_targets, replication_count,
                   network_formation_active, minerVars, callerVars,
                   oracleVars, frames>>

\* replica.synchronize(master_state) on a replica the replicator holds.
HeldReplicaSynchronizeCall ==
    /\ \E i \in 1..Len(replicas), m \in SyncAllStateArgs :
          LET r == synchronize(replicas[i], m)
          IN  /\ Size(Self) + 1 <= MaxSize
              /\ replicas' = [replicas EXCEPT ![i] = r.replica]
              /\ repCall' = [op |-> "synchronize", index |-> i,
                             master_state |-> m, ret |-> r.ret]
    /\ UNCHANGED <<clock, deployment_targets, replication_count,
                   network_formation_active, minerVars, callerVars,
                   oracleVars, frames>>

\* replicator.deactivate_replica(replica_id)
DeactivateReplicaCall ==
    /\ \E id \in {replicas[i].replica_id : i \in 1..Len(replicas)}
                  \cup {ReplicaIdUnknown} :
          LET r == deactivate_replica(Self, id)
          IN  /\ SetSelf(r.self)
              /\ repCall' = [op |-> "deactivate_replica", replica_id |-> id,
                             ret |-> r.ret]
    /\ UNCHANGED <<clock, minerVars, callerVars, oracleVars, frames>>

Next ==
    \/ IsValidBlockCall
    \/ MeetsDifficultyCall
    \/ ValidateConsciousnessCall
    \/ ComputeBlockConsciousnessCall
    \/ ConstructCall
    \/ MineCall
    \/ MineStep
    \/ MineExhausted
    \/ MineWithStatsCall
    \/ MineWithStatsStep
    \/ MineWithStatsExhausted

Spec == Init /\ [][Next]_vars

\* Repeated meets_difficulty calls of one caller.
NextDifficulty == MeetsDifficultyRepeat

SpecDifficulty == Init /\ [][NextDifficulty]_vars

\* A caller evaluates kernel.iit.phi_to_legacy_score(phi_total) and keeps its
\* previous call.
PhiToLegacyScoreRepeat ==
    /\ \E p \in LegacyArgs :
          iitCall' = [op |-> "phi_to_legacy_score", phi_total |-> p,
                      ret |-> phi_to_legacy_score(p)]
    /\ iitPrev' = iitCall
    /\ UNCHANGED <<kernel, hashOf, compOf, pc, call, nonce, stats, ret,
                   evalLog, md, mdPrev, session, oracleVars,
                   replicatorVars, frames>>

\* Repeated calls of the stateless methods of kernel.iit by one caller.
NextGate ==
    \/ ValidateConsciousnessRepeat
    \/ PhiToLegacyScoreRepeat

SpecGate == InitGate /\ [][NextGate]_vars

\* A caller's session on one kernel: a mine call, at most one other call
\* (mine, mine_with_stats or is_valid_block for the same difficulty and node
\* count), and the first mine call again.
NextRepeat ==
    \/ (/\ session.first = Unset
        /\ MineCall
        /\ call'.difficulty \in SessionDifficultySet)
    \/ (/\ session.first # Unset
        /\ ~session.interleaved
        /\ \/ IsValidBlockCall
           \/ (/\ (MineCall \/ MineWithStatsCall)
               /\ call'.block_data = session.first.call.block_data
               /\ call'.max_attempts = session.first.call.max_attempts)
        /\ call'.difficulty = session.first.call.difficulty
        /\ call'.n_network_nodes = session.first.call.n_network_nodes)
    \/ MineAgainCall
    \/ MineStep
    \/ MineExhausted
    \/ MineWithStatsStep
    \/ MineWithStatsExhausted
    \/ Return

SpecRepeat == InitRepeat /\ [][NextRepeat]_vars

\* The operations on one OracleReplica.
NextOracle ==
    \/ CreateReplica
    \/ ActivateConsciousnessCall
    \/ SynchronizeCall
    \/ GetStateCall
    \/ UpdateOracleState

SpecOracle == InitOracle /\ [][NextOracle]_vars

\* Before any call on a new OmniscientOracleReplicator (the miner kernel
\* takes no part).
InitReplicator ==
    /\ InitRepeat
    /\ Self = OmniscientOracleReplicator

\* The operations on one OmniscientOracleReplicator and on the replicas it
\* holds, in any order.
NextReplicator ==
    \/ AddDeploymentTargetCall
    \/ ReplicateToMoltbotCall
    \/ ReplicateToClawbotCall
    \/ ReplicateToAllTargetsCall
    \/ FormOracleNetworkCall
    \/ SynchronizeAllCall
    \/ GetNetworkStatusCall
    \/ DeactivateReplicaCall
    \/ HeldReplicaActivateCall
    \/ HeldReplicaSynchronizeCall

SpecReplicator == InitReplicator /\ [][NextReplicator]_vars

\* The mining calls alone, for difficulty 0.  The loop of a call is
\* sequential code of the calling thread, which keeps running: an iteration
\* or the return that is possible is taken.
NextMining ==
    \/ MineCallWith(TrivialDifficultySet)
    \/ MineStep
    \/ MineExhausted
    \/ MineWithStatsCallWith(TrivialDifficultySet)
    \/ MineWithStatsStep
    \/ MineWithStatsExhausted

SpecMining ==
    /\ InitRepeat
    /\ [][NextMining]_vars
    /\ WF_vars(MineStep \/ MineExhausted)
    /\ WF_vars(MineWithStatsStep \/ MineWithStatsExhausted)

\* Two threads run mining calls on the same kernel, their iterations
\* interleaved in any order.
NextConcurrent ==
    \/ \E t \in Threads : ThreadMiningCall(t)
    \/ \E t \in Threads : ThreadMiningStep(t)
    \/ \E t \in Threads : ThreadMiningExhausted(t)

SpecConcurrent == InitRepeat /\ [][NextConcurrent]_vars

\* ----------------------------------------------------------------- claims

MiningOps == {"mine", "mine_with_stats"}

\* The byte string of candidate j of the call in progress.
DataOf(j) == call.block_data \o DecimalRepr(j)

\* The bytes were hashed and scored, and pass the three gates for difficulty
\* d and node count n.
PassesAllGates(data, d, n) ==
    /\ data \in DOMAIN hashOf
    /\ meets_difficulty(hashOf[data], d)
    /\ data \in DOMAIN compOf
    /\ LET s == compute_block_consciousness(kernel.iit, compOf[data]) IN
       /\ validate_consciousness_consensus(kernel.iit, s.phi_total,
                                           s.fano_score, s.qg_score, n)
       /\ s.qg_score >= kernel.qg_threshold

\* C1: whenever mine_with_stats returns a successful result (nonce present),
\* difficulty_rejected + consciousness_rejected + qg_curvature_rejected +
\* accepted = total_attempts and accepted = 1.
C1_StatsBalanceOnSuccess ==
    (pc = "done" /\ call.op = "mine_with_stats" /\ ret.nonce # None) =>
        /\ stats.difficulty_rejected + stats.consciousness_rejected
             + stats.qg_curvature_rejected + stats.accepted
           = stats.total_attempts
        /\ stats.accepted = 1

\* C1 witness: a successful mine_with_stats whose winning nonce came after a
\* rejected one.
C1_Witness ==
    /\ pc = "done" /\ call.op = "mine_with_stats" /\ ret.nonce # None
    /\ stats.total_attempts = 2
    /\ stats.consciousness_rejected = 1

\* C2: mine tries the nonces 0, 1, 2, ... in ascending order, one evaluation
\* each; while the loop runs every nonce evaluated so far was rejected; and
\* when mine returns nonce k, exactly the nonces 0..k were evaluated, every
\* j < k fails at least one gate and k passes all three.
C2_AscendingFirstWins ==
    call.op = "mine" =>
        /\ \A i \in 1..Len(evalLog) : evalLog[i].data = DataOf(i - 1)
        /\ pc = "mine" =>
             /\ Len(evalLog) = nonce
             /\ \A i \in 1..Len(evalLog) : ~evalLog[i].valid
        /\ (pc = "done" /\ ret.nonce # None) =>
             LET k == ret.nonce[1] IN
             /\ Len(evalLog) = k + 1
             /\ \A j \in 0..(k - 1) :
                   /\ ~evalLog[j + 1].valid
                   /\ ~PassesAllGates(DataOf(j), call.difficulty,
                                      call.n_network_nodes)
             /\ evalLog[k + 1].valid
             /\ PassesAllGates(DataOf(k), call.difficulty,
                               call.n_network_nodes)

\* C2 witness: mine returned nonce 1 after rejecting nonce 0.
C2_Witness ==
    /\ pc = "done" /\ call.op = "mine" /\ ret.nonce = Some(1)
    /\ Len(evalLog) = 2

\* The 'no result' value for max_attempts m, field by field.
IsNoResult(r, m) ==
    /\ r.nonce = None /\ r.block_hash = None
    /\ r.phi_total = 0 /\ r.qg_score = 0 /\ r.holo_score = 0
    /\ r.fano_score = 0
    /\ r.phi_score = 200 * One
    /\ r.attempts = m

\* C3: mine and mine_with_stats return the 'no result' value exactly when no
\* nonce in 0..max_attempts-1 passes all three gates (otherwise a nonce is
\* present), and then mine_with_stats reports accepted = 0.
C3_NoResultIffNoneValid ==
    (pc = "done" /\ call.op \in MiningOps) =>
        LET noneValid ==
                \A j \in 0..(call.max_attempts - 1) :
                    ~PassesAllGates(DataOf(j), call.difficulty,
                                    call.n_network_nodes)
        IN  /\ noneValid <=> IsNoResult(ret, call.max_attempts)
            /\ noneValid <=> (ret.nonce = None)
            /\ (noneValid /\ call.op = "mine_with_stats") => stats.accepted = 0

\* C3 witness: mine_with_stats ran out of nonces after rejecting two candidates
\* at different gates.
C3_Witness ==
    /\ pc = "done" /\ call.op = "mine_with_stats" /\ ret.nonce = None
    /\ call.max_attempts = 2
    /\ stats.difficulty_rejected = 1
    /\ stats.qg_curvature_rejected = 1

\* C4: every is_valid_block invocation returns the name of the first failing
\* gate in the order difficulty, consciousness, qg_curvature ("" when all
\* pass; qg_score equal to qg_threshold passes), and valid iff the tag is "".
C4_FirstFailedGate ==
    \A i \in 1..Len(evalLog) :
        LET e == evalLog[i]
            dOK == meets_difficulty(e.hash, e.difficulty)
        IN  /\ e.gate_failed \in {"", "difficulty", "consciousness", "qg_curvature"}
            /\ e.valid <=> (e.gate_failed = "")
            /\ (e.gate_failed = "difficulty") <=> ~dOK
            /\ dOK =>
                 /\ e.data \in DOMAIN compOf
                 /\ LET s == compute_block_consciousness(kernel.iit, compOf[e.data])
                        cOK == validate_consciousness_consensus(kernel.iit,
                                   s.phi_total, s.fano_score, s.qg_score,
                                   e.n_network_nodes)
                        qOK == ~(s.qg_score < kernel.qg_threshold)
                    IN  /\ (e.gate_failed = "consciousness") <=> ~cOK
                        /\ (e.gate_failed = "qg_curvature") <=> (cOK /\ ~qOK)
                        /\ (e.gate_failed = "") <=> (cOK /\ qOK)

\* C4 witness: a direct is_valid_block call accepted a candidate whose
\* qg_score equals a positive qg_threshold.
C4_Witness ==
    /\ pc = "done" /\ call.op = "is_valid_block"
    /\ ret.valid /\ ret.gate_failed = ""
    /\ kernel.qg_threshold > 0
    /\ ret.structure.qg_score = kernel.qg_threshold

\* C5: an is_valid_block invocation that rejects at the difficulty gate
\* returns the default PhiStructure (eight fields 0.0) and computes no
\* component scores; one that rejects at a later gate, or accepts, returns
\* exactly compute_phi_structure(data).
C5_StructureReturned ==
    [][ Len(evalLog') > Len(evalLog) =>
          LET e == evalLog'[Len(evalLog')] IN
          IF e.gate_failed = "difficulty"
          THEN /\ e.structure = [phi_tau |-> 0, gwt_s |-> 0, icp_avg |-> 0,
                                 fano_score |-> 0, phi_nab |-> 0,
                                 qg_score |-> 0, holo_score |-> 0,
                                 phi_total |-> 0]
               /\ compOf' = compOf
          ELSE /\ e.data \in DOMAIN compOf'
               /\ e.structure = compute_phi_structure(kernel, compOf'[e.data])
      ]_vars

\* C5 witness: a mining run rejected one candidate at the difficulty gate,
\* leaving its scores uncomputed, and one at the consciousness gate.
C5_Witness ==
    /\ \E i \in 1..Len(evalLog) :
          /\ evalLog[i].gate_failed = "difficulty"
          /\ evalLog[i].data \notin DOMAIN compOf
    /\ \E i \in 1..Len(evalLog) :
          /\ evalLog[i].gate_failed = "consciousness"
          /\ evalLog[i].structure.phi_total > 0

\* Bit i (1 = most significant) of a hex digit string.
BitAt(digits, i) ==
    LET dgt == digits[((i - 1) \div 4) + 1]
        k == (i - 1) % 4
    IN  IF k = 0 THEN dgt \div 8
        ELSE IF k = 1 THEN (dgt \div 4) % 2
        ELSE IF k = 2 THEN (dgt \div 2) % 2
        ELSE dgt % 2

\* The k most significant bits of the hash are 0, i.e. its value is below
\* 2 ** (256 - k).
TopBitsZero(hash_hex, k) == \A i \in 1..k : BitAt(hash_hex, i) = 0

\* Number of bits of a positive Python int, counted on its binary expansion.
BitCount(x) ==
    LET n == 4 * Len(x.mag)
        first == CHOOSE i \in 1..n :
                    /\ BitAt(x.mag, i) = 1
                    /\ \A j \in 1..(i - 1) : BitAt(x.mag, j) = 0
    IN  n - first + 1

IsPositive(x) == ~x.neg /\ x.mag # <<>>

\* 1 <= d < 2 ** 256
InU256Range(d) == IsPositive(d) /\ Len(d.mag) <= HashHexLen

\* C6 (as claimed): meets_difficulty(h, d) is true for every d <= 0; the
\* all-zero hash passes every d > 0; the all-'f' hash fails every d >= 1; and
\* is_valid_block with difficulty 0 never reports "difficulty".
C6_TrivialAndExtremeHashes ==
    /\ (pc = "done" /\ call.op = "meets_difficulty") =>
          /\ ~IsPositive(call.difficulty) => ret
          /\ (call.hash_hex = HashZero /\ IsPositive(call.difficulty)) => ret
          /\ (call.hash_hex = HashMax /\ IsPositive(call.difficulty)) => ~ret
    /\ \A i \in 1..Len(evalLog) :
          evalLog[i].difficulty = IntOf(0) =>
              evalLog[i].gate_failed # "difficulty"

\* C7: for a fixed hash, meets_difficulty is non-increasing in the
\* difficulty: once false for d1 it is false for every d2 >= d1.
C7_NonIncreasingInDifficulty ==
    (/\ mdPrev # NoCall
     /\ mdPrev.hash_hex = md.hash_hex
     /\ IntLeq(mdPrev.difficulty, md.difficulty)
     /\ ~mdPrev.ret) => ~md.ret

\* C7 witness: a hash that failed one difficulty was tried against a strictly
\* larger difficulty of a larger bit length.
C7_Witness ==
    /\ mdPrev # NoCall
    /\ mdPrev.hash_hex = md.hash_hex
    /\ ~mdPrev.ret
    /\ ~md.ret
    /\ IsPositive(mdPrev.difficulty)
    /\ IntLess(mdPrev.difficulty, md.difficulty)
    /\ BitCount(mdPrev.difficulty) < BitCount(md.difficulty)

\* C8: for 1 <= d < 2 ** 256, meets_difficulty(h, d) is true iff
\* h < 2 ** (256 - bit_length(d)), i.e. iff the bit_length(d) leading bits of
\* the 256-bit hash are zero; for d = 2 ** 256 - 1 only the hash value 0
\* passes, and is_valid_block reports "difficulty" exactly for the hashes
\* that are not below the target.
C8_TargetIsPowerOfTwo ==
    /\ (pc = "done" /\ call.op = "meets_difficulty"
            /\ InU256Range(call.difficulty)) =>
          /\ ret <=> TopBitsZero(call.hash_hex, BitCount(call.difficulty))
          /\ call.difficulty = MaxU256 => (ret <=> call.hash_hex = HashZero)
    /\ \A i \in 1..Len(evalLog) :
          LET e == evalLog[i] IN
          InU256Range(e.difficulty) =>
              /\ (e.gate_failed = "difficulty")
                    <=> ~TopBitsZero(e.hash, BitCount(e.difficulty))
              /\ (e.difficulty = MaxU256 /\ e.hash # HashZero) =>
                    e.gate_failed = "difficulty"

\* C8 witness: the hash 2 ** 255 was tested against difficulty 1, whose
\* target is 2 ** 255, and failed.
C8_Witness ==
    /\ pc = "done" /\ call.op = "meets_difficulty"
    /\ call.hash_hex = HashHalf
    /\ call.difficulty = IntOf(1)
    /\ ~ret

\* C9 (as claimed): for every difficulty >= 2 ** 256 mine and mine_with_stats
\* return the 'no result' value with attempts = max_attempts: no candidate is
\* accepted, whatever its hash.
C9_ImpossibleDifficultyNoAcceptance ==
    (/\ pc = "done"
     /\ call.op \in MiningOps
     /\ IntLeq(Pow2Int(HashBits), call.difficulty)) =>
        /\ ret.nonce = None
        /\ ret.block_hash = None
        /\ ret.attempts = call.max_attempts

\* C9 (amended): for every difficulty >= 2 ** 256 mine and mine_with_stats
\* return without error; every candidate whose hash value is not 0 is
\* rejected at the difficulty gate, a returned nonce belongs to a candidate
\* whose hash value is 0, and when no candidate hashes to 0 the result is the
\* 'no result' value with attempts = max_attempts.
C9_ImpossibleDifficultyOnlyZeroHash ==
    (/\ call.op \in MiningOps
     /\ IntLeq(Pow2Int(HashBits), call.difficulty)) =>
        /\ \A i \in 1..Len(evalLog) :
              evalLog[i].hash # HashZero =>
                  /\ evalLog[i].gate_failed = "difficulty"
                  /\ ~evalLog[i].valid
        /\ pc = "done" =>
              /\ ret.nonce # None =>
                    /\ ret.block_hash = HashZero
                    /\ hashOf[DataOf(ret.nonce[1])] = HashZero
              /\ (\A i \in 1..Len(evalLog) : evalLog[i].hash # HashZero) =>
                    /\ IsNoResult(ret, call.max_attempts)
                    /\ Len(evalLog) = call.max_attempts

\* C9 witness: mine_with_stats with difficulty 2 ** 256 rejected two
\* candidates with non-zero hashes and returned the 'no result' value.
C9_Witness ==
    /\ pc = "done" /\ call.op = "mine_with_stats"
    /\ call.difficulty = Pow2Int(HashBits)
    /\ call.max_attempts = 2
    /\ ret.nonce = None /\ ret.attempts = 2
    /\ stats.difficulty_rejected = 2
    /\ \A i \in 1..Len(evalLog) : evalLog[i].hash # HashZero

\* C10: validate_consciousness_consensus(phi_total, fano, qg, n_nodes) is
\* true iff phi_total > log2(max(n_nodes, 1)) + delta * fano + zeta * qg for
\* the configured delta and zeta; the comparison is strict.  (Both sides are
\* multiplied by One, so no product is divided.)
C10_ConsciousnessGateStrict ==
    (pc = "done" /\ call.op = "validate_consciousness_consensus") =>
        LET n == IF call.n_nodes < 1 THEN 1 ELSE call.n_nodes
            lhs == One * call.phi_total
            rhs == One * Log2Fixed(n)
                     + kernel.iit.delta * call.fano_score
                     + kernel.iit.zeta * call.qg_score
        IN  /\ ret <=> lhs > rhs
            /\ lhs = rhs => ~ret
            /\ (call.phi_total = 0 /\ call.n_nodes = 1
                  /\ call.fano_score = 0 /\ call.qg_score = 0) => ~ret

\* C10 witness: a call with phi_total exactly equal to a positive threshold
\* made of the fano and qg terms returned false.
C10_Witness ==
    /\ pc = "done" /\ call.op = "validate_consciousness_consensus"
    /\ call.n_nodes = 1
    /\ call.fano_score > 0 /\ call.qg_score > 0
    /\ kernel.iit.delta > 0 /\ kernel.iit.zeta > 0
    /\ One * call.phi_total
         = kernel.iit.delta * call.fano_score + kernel.iit.zeta * call.qg_score
    /\ ~ret

\* Both calls of the caller were consciousness-gate calls with the same
\* phi_total, fano_score and qg_score (the weights are those of kernel.iit).
SameGateInputs ==
    /\ iitPrev.op = "validate_consciousness_consensus"
    /\ iitCall.op = "validate_consciousness_consensus"
    /\ iitPrev.phi_total = iitCall.phi_total
    /\ iitPrev.fano_score = iitCall.fano_score
    /\ iitPrev.qg_score = iitCall.qg_score

\* C11: for fixed phi_total, fano, qg and weights, a gate that fails for n
\* nodes fails for every n' >= n; every n_nodes <= 1 gives the result of
\* n_nodes = 1; and with delta = zeta = 0 and phi_total = 0.5 the gate passes
\* for n_nodes = 1 and fails for n_nodes = 2.
C11_ThresholdGrowsWithNodes ==
    /\ (SameGateInputs /\ iitPrev.n_nodes <= iitCall.n_nodes /\ ~iitPrev.ret)
          => ~iitCall.ret
    /\ (SameGateInputs /\ iitPrev.n_nodes <= 1 /\ iitCall.n_nodes = 1)
          => (iitPrev.ret <=> iitCall.ret)
    /\ (/\ iitCall.op = "validate_consciousness_consensus"
        /\ kernel.iit.delta = 0 /\ kernel.iit.zeta = 0
        /\ 2 * iitCall.phi_total = One) =>
          /\ iitCall.n_nodes = 1 => iitCall.ret
          /\ iitCall.n_nodes = 2 => ~iitCall.ret

\* C11 witness: with delta = zeta = 0 a phi_total of 0.5 failed the gate for
\* two nodes and then failed it for four.
C11_Witness ==
    /\ SameGateInputs
    /\ kernel.iit.delta = 0 /\ kernel.iit.zeta = 0
    /\ 2 * iitCall.phi_total = One
    /\ iitPrev.n_nodes = 2 /\ ~iitPrev.ret
    /\ iitCall.n_nodes = 4 /\ ~iitCall.ret

\* The evaluations of the call so far whose hash passed the difficulty gate.
PassedDifficulty ==
    {i \in 1..Len(evalLog) :
        meets_difficulty(evalLog[i].hash, evalLog[i].difficulty)}

\* C12: with n_network_nodes >= 2 and non-negative delta and zeta no
\* candidate passes the consciousness gate: every evaluation is rejected at
\* the difficulty or the consciousness gate, mine and mine_with_stats return
\* the 'no result' value, and mine_with_stats reports accepted = 0,
\* qg_curvature_rejected = 0 and consciousness_rejected = the number of
\* nonces that passed the difficulty gate.
C12_NoAcceptanceFromTwoNodes ==
    (kernel.iit.delta >= 0 /\ kernel.iit.zeta >= 0) =>
        /\ \A i \in 1..Len(evalLog) :
              evalLog[i].n_network_nodes >= 2 =>
                  /\ ~evalLog[i].valid
                  /\ evalLog[i].gate_failed = "consciousness"
                        <=> i \in PassedDifficulty
                  /\ evalLog[i].gate_failed # "qg_curvature"
        /\ (pc = "done" /\ call.op \in MiningOps
               /\ call.n_network_nodes >= 2) =>
              /\ IsNoResult(ret, call.max_attempts)
              /\ Len(evalLog) = call.max_attempts
        /\ (pc = "done" /\ call.op = "mine_with_stats"
               /\ call.n_network_nodes >= 2) =>
              /\ stats.accepted = 0
              /\ stats.qg_curvature_rejected = 0
              /\ stats.consciousness_rejected = Cardinality(PassedDifficulty)

\* C12 witness: mine_with_stats with two network nodes rejected one candidate
\* at the difficulty gate and one, whose phi_total is 1.0, at the
\* consciousness gate.
C12_Witness ==
    /\ pc = "done" /\ call.op = "mine_with_stats"
    /\ call.n_network_nodes = 2
    /\ stats.difficulty_rejected = 1
    /\ stats.consciousness_rejected = 1
    /\ \E i \in 1..Len(evalLog) : evalLog[i].structure.phi_total = One

\* The caller's first mine call returned a nonce, and the call that has now
\* returned is is_valid_block on the bytes of that nonce with the difficulty
\* and node count of the mine call.
ReVerifying ==
    /\ pc = "done" /\ call.op = "is_valid_block"
    /\ session.first # Unset
    /\ session.first.ret.nonce # None
    /\ call.data = CandidateData(session.first.call.block_data,
                                 session.first.ret.nonce[1])
    /\ call.difficulty = session.first.call.difficulty
    /\ call.n_network_nodes = session.first.call.n_network_nodes

\* C13: a successful MineResult is re-verifiable: the hash computed again for
\* block_data followed by the decimal nonce is result.block_hash, it meets the
\* difficulty, and is_valid_block on those bytes returns valid.
C13_ResultReVerifiable ==
    ReVerifying =>
        /\ Len(evalLog) = 1
        /\ evalLog[1].data = session.first.call.block_data
                               \o DecimalRepr(session.first.ret.nonce[1])
        /\ evalLog[1].hash = session.first.ret.block_hash
        /\ meets_difficulty(session.first.ret.block_hash,
                            session.first.call.difficulty)
        /\ ret.valid
        /\ ret.gate_failed = ""

\* C13 witness: mine returned nonce 1 and the caller verified that candidate
\* again with is_valid_block.
C13_Witness ==
    /\ ReVerifying
    /\ session.first.ret.nonce = Some(1)
    /\ ret.valid

\* C14: a successful MineResult is filled from the winning candidate:
\* attempts = nonce + 1 with 1 <= attempts <= max_attempts; phi_total,
\* qg_score, holo_score and fano_score are those of the structure the gate
\* pipeline returned for that nonce; and phi_score = 200 + 800 * phi_total,
\* which lies in [200, 1000].
C14_ResultFromWinningCandidate ==
    (pc = "done" /\ call.op \in MiningOps /\ ret.nonce # None) =>
        LET k == ret.nonce[1]
            e == evalLog[Len(evalLog)]
        IN  /\ ret.attempts = k + 1
            /\ 1 <= ret.attempts /\ ret.attempts <= call.max_attempts
            /\ e.data = DataOf(k)
            /\ e.valid
            /\ ret.phi_total = e.structure.phi_total
            /\ ret.qg_score = e.structure.qg_score
            /\ ret.holo_score = e.structure.holo_score
            /\ ret.fano_score = e.structure.fano_score
            /\ ret.phi_score = 200 * One + 800 * e.structure.phi_total
            /\ 200 * One <= ret.phi_score /\ ret.phi_score <= 1000 * One

\* C14 witness: mine returned nonce 1 after two attempts with a phi_score
\* strictly between 200 and 1000.
C14_Witness ==
    /\ pc = "done" /\ call.op = "mine" /\ ret.nonce = Some(1)
    /\ ret.attempts = 2 /\ call.max_attempts = 2
    /\ 200 * One < ret.phi_score /\ ret.phi_score < 1000 * One
    /\ ret.fano_score # ret.qg_score

\* C15: mine is deterministic: a mine call repeated with the same block_data,
\* difficulty, n_network_nodes and max_attempts on the same kernel returns the
\* MineResult of the first call (nonce, block_hash, scores, phi_score and
\* attempts), whether or not a mine, mine_with_stats or is_valid_block call
\* was made in between.
C15_MineDeterministic ==
    (pc = "done" /\ session.again) =>
        /\ call = session.first.call
        /\ ret = session.first.ret
        /\ ret.nonce = session.first.ret.nonce
        /\ ret.block_hash = session.first.ret.block_hash
        /\ ret.phi_score = session.first.ret.phi_score
        /\ ret.attempts = session.first.ret.attempts

\* C15 witness: the repeated mine call returned nonce 0 again after an
\* interleaved call had hashed and scored a candidate the first call never
\* looked at.
C15_Witness ==
    /\ pc = "done" /\ session.again /\ session.interleaved
    /\ ret.nonce = Some(0)
    /\ session.first.ret.nonce = Some(0)
    /\ Cardinality(DOMAIN hashOf) = 2
    /\ Cardinality(DOMAIN compOf) = 2

\* C16: phi_to_legacy_score(phi) = clip(200 + 800 * phi, 200, 1000): the
\* result lies in [200, 1000], legacy(0) = 200, legacy(0.5) = 600,
\* legacy(1) = 1000, inputs below 0 give 200 and inputs above 1 give 1000,
\* and the mapping is non-decreasing in phi.
C16_LegacyScoreClipped ==
    /\ iitCall.op = "phi_to_legacy_score" =>
          LET p == iitCall.phi_total
              r == iitCall.ret
          IN  /\ 200 * One <= r /\ r <= 1000 * One
              /\ p = 0 => r = 200 * One
              /\ 2 * p = One => r = 600 * One
              /\ p = One => r = 1000 * One
              /\ p < 0 => r = 200 * One
              /\ p > One => r = 1000 * One
              /\ (0 <= p /\ p <= One) => r = 200 * One + 800 * p
    /\ (/\ iitPrev.op = "phi_to_legacy_score"
        /\ iitCall.op = "phi_to_legacy_score"
        /\ iitPrev.phi_total <= iitCall.phi_total) =>
          iitPrev.ret <= iitCall.ret

\* C16 witness: the mapping was evaluated below 0 and then above 1, and gave
\* 200 and 1000.
C16_Witness ==
    /\ iitPrev.op = "phi_to_legacy_score"
    /\ iitCall.op = "phi_to_legacy_score"
    /\ iitPrev.phi_total < 0 /\ iitPrev.ret = 200 * One
    /\ iitCall.phi_total > One /\ iitCall.ret = 1000 * One

\* One times the weighted sum of the seven component scores of structure s
\* for the weights of iit (the products are not divided by One).
WeightedSum(iit, s) ==
    iit.alpha * s.phi_tau + iit.beta * s.gwt_s + iit.gamma * s.icp_avg
      + iit.delta * s.fano_score + iit.epsilon * s.phi_nab
      + iit.zeta * s.qg_score + iit.eta * s.holo_score

ScoresInUnitRange(s) ==
    \A v \in {s.phi_tau, s.gwt_s, s.icp_avg, s.fano_score, s.phi_nab,
               s.qg_score, s.holo_score} : 0 <= v /\ v <= One

ConvexWeights(iit) ==
    /\ \A v \in {iit.alpha, iit.beta, iit.gamma, iit.delta, iit.epsilon,
                  iit.zeta, iit.eta} : v >= 0
    /\ iit.alpha + iit.beta + iit.gamma + iit.delta + iit.epsilon
         + iit.zeta + iit.eta = One

\* The structure s computed by iit for scores c has phi_total equal to the
\* weighted sum of its own seven fields clipped to [0, 1].
IsClippedComposite(iit, s, c) ==
    LET sum == WeightedSum(iit, s) IN
    /\ s.phi_tau = c.phi_tau /\ s.gwt_s = c.gwt_s /\ s.icp_avg = c.icp_avg
    /\ s.fano_score = c.fano_score /\ s.phi_nab = c.phi_nab
    /\ s.qg_score = c.qg_score /\ s.holo_score = c.holo_score
    /\ 0 <= s.phi_total /\ s.phi_total <= One
    /\ sum < 0 => s.phi_total = 0
    /\ sum > One * One => s.phi_total = One
    /\ (0 <= sum /\ sum <= One * One) => One * s.phi_total = sum
    /\ (ScoresInUnitRange(s) /\ ConvexWeights(iit)) =>
          One * s.phi_total = sum

\* C17: compute_block_consciousness returns phi_total = clip(weighted sum of
\* the seven scores, 0, 1): phi_total is in [0, 1] for any weights, and when
\* the scores are in [0, 1] and the weights are non-negative and sum to 1.0
\* it equals the unclipped weighted sum of the seven fields of the returned
\* structure.  This holds for a direct call and for the structures the gate
\* pipeline computes.
C17_PhiTotalClippedComposite ==
    /\ (pc = "done" /\ call.op = "compute_block_consciousness") =>
          IsClippedComposite(call.iit, ret, compOf[call.data])
    /\ \A i \in 1..Len(evalLog) :
          evalLog[i].computed =>
              IsClippedComposite(kernel.iit, evalLog[i].structure,
                                 compOf[evalLog[i].data])

\* C17 witness: a direct call on an object whose weights sum to 7.0 returned
\* phi_total = 1.0 for a weighted sum above 1.0.
C17_Witness ==
    /\ pc = "done" /\ call.op = "compute_block_consciousness"
    /\ ~ConvexWeights(call.iit)
    /\ WeightedSum(call.iit, ret) > One * One
    /\ ret.phi_total = One

\* The configuration of kernel object k is within its ranges.
ConfigInRange(k) ==
    /\ k.iit.engine.n_nodes >= 2
    /\ k.iit.engine.temporal_depth >= 1
    /\ 0 <= k.qg_threshold /\ k.qg_threshold <= One

\* C18: the constructor clamps invalid configuration and returns an object:
\* the engine's n_nodes is max(n_nodes, 2), its temporal_depth is
\* max(temporal_depth, 1), the kernel's qg_threshold is
\* min(1, max(0, qg_threshold)); and n_nodes >= 2, temporal_depth >= 1 and
\* 0 <= qg_threshold <= 1 hold of the kernel in every reachable state.
C18_ConfigurationClamped ==
    /\ ConfigInRange(kernel)
    /\ (pc = "done" /\ call.op = "__init__") =>
          /\ ConfigInRange(ret)
          /\ ret.iit.engine.n_nodes
               = (IF call.n_nodes < 2 THEN 2 ELSE call.n_nodes)
          /\ ret.iit.engine.temporal_depth
               = (IF call.temporal_depth < 1 THEN 1 ELSE call.temporal_depth)
          /\ ret.qg_threshold
               = (IF call.qg_threshold < 0 THEN 0
                  ELSE IF call.qg_threshold > One THEN One
                  ELSE call.qg_threshold)

\* C18 witness: a kernel was constructed with n_nodes = 0, temporal_depth = -1
\* and qg_threshold = 1.5 and came back with 2, 1 and 1.0.
C18_Witness ==
    /\ pc = "done" /\ call.op = "__init__"
    /\ call.n_nodes = 0 /\ call.temporal_depth = 0 - 1
    /\ call.qg_threshold > One
    /\ ret.iit.engine.n_nodes = 2
    /\ ret.iit.engine.temporal_depth = 1
    /\ ret.qg_threshold = One

\* C19 (as claimed): after any call to activate_consciousness, in any
\* sequence of operations, consciousness_active is true iff the phi value
\* just read is > 0.5, and the call returned that same boolean.
C19_ActiveIffPhiAboveThreshold ==
    oracleCall.op = "activate_consciousness" =>
        /\ replica.consciousness_active <=> (2 * replica.phi_value > One)
        /\ oracleCall.ret <=> replica.consciousness_active

\* C20: each synchronize call increments sync_count by exactly one and sets
\* the stored phi to master_state["phi"] when that key is present, leaving it
\* unchanged otherwise; after k synchronize calls on a fresh replica
\* sync_count = k, and get_state reports the stored phi and sync_count.
C20_SynchronizeCountsAndStoresPhi ==
    /\ replica # Unset => replica.sync_count = syncCalls
    /\ oracleCall.op = "synchronize" =>
          LET b == oracleCall.before
              m == oracleCall.master_state
          IN  /\ replica.sync_count = b.sync_count + 1
              /\ (m # NotADict /\ m.phi # None) =>
                    replica.phi_value = m.phi[1]
              /\ (m = NotADict \/ m.phi = None) =>
                    replica.phi_value = b.phi_value
    /\ oracleCall.op = "get_state" =>
          /\ oracleCall.ret.phi = replica.phi_value
          /\ oracleCall.ret.sync_count = syncCalls

\* C20 witness: get_state reported sync_count = 2 and a phi above 0 after a
\* synchronize call whose master_state had no "phi" key.
C20_Witness ==
    /\ oracleCall.op = "get_state"
    /\ oracleCall.ret.sync_count = 2
    /\ oracleCall.ret.phi > 0
    /\ syncCalls = 2

\* The positions of the replicas that are active, and the sum of the phi
\* values of the replicas at the positions in S.
ActiveIndices == {i \in 1..Len(replicas) : replicas[i].consciousness_active}

RECURSIVE PhiSumAt(_)
PhiSumAt(S) ==
    IF S = {} THEN 0
    ELSE LET i == CHOOSE j \in S : TRUE
         IN  replicas[i].phi_value + PhiSumAt(S \ {i})

\* C21: form_oracle_network forms a network iff at least 2 replicas are
\* active: then it returns status "active", replica_count = the number of
\* active replicas and network_phi = the arithmetic mean of the active
\* replicas' phi values (network_phi * count = their sum) and sets
\* network_formation_active; with fewer than 2 active replicas it returns
\* status "insufficient_replicas" with the active count and leaves
\* network_formation_active as it was.
C21_FormOracleNetwork ==
    /\ [](repCall.op = "form_oracle_network" =>
            LET n == Cardinality(ActiveIndices) IN
            /\ (repCall.ret.status = "active") <=> (n >= 2)
            /\ n >= 2 =>
                  /\ repCall.ret.replica_count = n
                  /\ repCall.ret.network_phi * n = PhiSumAt(ActiveIndices)
                  /\ network_formation_active
            /\ n < 2 =>
                  /\ repCall.ret.status = "insufficient_replicas"
                  /\ repCall.ret.count = n)
    /\ [][(/\ repCall'.op = "form_oracle_network"
            /\ repCall'.ret.status = "insufficient_replicas")
              => network_formation_active' = network_formation_active]_vars

\* C21 witness: a network was formed from two active replicas while a third,
\* deactivated replica holds a phi value other than the network's.
C21_Witness ==
    /\ repCall.op = "form_oracle_network"
    /\ repCall.ret.status = "active"
    /\ repCall.ret.replica_count = 2
    /\ Len(replicas) = 3
    /\ \E i \in 1..3 :
          /\ ~replicas[i].consciousness_active
          /\ replicas[i].phi_value # repCall.ret.network_phi

\* The replicator state other than deployment_targets is the same before
\* and after a step.
OtherReplicatorStateUnchanged ==
    /\ replicas' = replicas
    /\ replication_count' = replication_count
    /\ network_formation_active' = network_formation_active

\* C22: add_deployment_target(name, platform, endpoint) returns a boolean,
\* false iff the platform is neither "moltbot" nor "clawbot" or the endpoint
\* has fewer than 3 characters (the empty endpoint included); when it
\* returns true exactly one target with these arguments was appended, when
\* it returns false deployment_targets is unchanged, and the rest of the
\* replicator state is unchanged either way.
C22_InvalidTargetNotStored ==
    [][repCall'.op = "add_deployment_target" =>
         LET a == repCall'.args
             ok == /\ a.platform \in {"moltbot", "clawbot"}
                   /\ Len(a.endpoint) >= 3
         IN  /\ repCall'.ret \in BOOLEAN
             /\ repCall'.ret = ok
             /\ OtherReplicatorStateUnchanged
             /\ ok =>
                   /\ Len(deployment_targets') = Len(deployment_targets) + 1
                   /\ SubSeq(deployment_targets', 1, Len(deployment_targets))
                          = deployment_targets
                   /\ LET t == deployment_targets'[Len(deployment_targets')]
                      IN  /\ t.name = a.name
                          /\ t.platform = a.platform
                          /\ t.endpoint = a.endpoint
             /\ ~ok => deployment_targets' = deployment_targets]_vars

\* C22 witness: a target with an empty endpoint was reported invalid while
\* the replicator holds the target added before it and a replica.
C22_Witness ==
    /\ repCall.op = "add_deployment_target"
    /\ repCall.ret = FALSE
    /\ repCall.args.platform = "moltbot"
    /\ repCall.args.endpoint = ""
    /\ Len(deployment_targets) = 1
    /\ Len(replicas) >= 1

\* C23: get_state reports a mapping with exactly the keys replica_id,
\* target_name, target_platform, consciousness_active, phi, sync_count and
\* genome_hash_prefix, the last holding the first 16 hex digits of the genome
\* hash, and every replica a replicator holds reports the target_platform
\* "moltbot" or "clawbot" (here: the states listed by get_network_status).
C23_GetStateKeysAndPlatform ==
    repCall.op = "get_network_status" =>
        /\ Len(repCall.ret.replicas) = Len(replicas)
        /\ \A i \in 1..Len(replicas) :
              LET st == repCall.ret.replicas[i] IN
              /\ st.target_platform \in {"moltbot", "clawbot"}
              /\ DOMAIN st = {"replica_id", "target_name", "target_platform",
                              "consciousness_active", "phi", "sync_count",
                              "genome_hash_prefix"}
              /\ st.genome_hash_prefix = Prefix(replicas[i].genome_hash, 16)

\* C24: a mine or mine_with_stats call evaluates the gates at most
\* max_attempts times and then returns (every call that has started
\* eventually has returned); with max_attempts = 0 it returns the no-result
\* with attempts = 0 without evaluating any gate, mine_with_stats with all
\* five counters 0.
C24_SearchBoundedByMaxAttempts ==
    /\ [](call.op \in {"mine", "mine_with_stats"} =>
            /\ Len(evalLog) <= call.max_attempts
            /\ (pc = "done" /\ call.max_attempts = 0) =>
                  /\ evalLog = <<>>
                  /\ ret.nonce = None
                  /\ ret.block_hash = None
                  /\ ret.attempts = 0
                  /\ call.op = "mine_with_stats" =>
                        \A f \in DOMAIN stats : stats[f] = 0)
    /\ (pc \in {"mine", "mine_with_stats"}) ~> (pc = "done")

\* C24 witness: mine_with_stats returned from a call with max_attempts = 0.
C24_Witness ==
    /\ pc = "done"
    /\ call.op = "mine_with_stats"
    /\ call.max_attempts = 0
    /\ ret.attempts = 0
    /\ stats.total_attempts = 0

\* What a call with the arguments c returns, and the counters it has
\* collected, when it runs alone from the nonce n with the counters st: the
\* loop of mine_with_stats over the hashes and scores of the candidates.
RECURSIVE RunAlone(_, _, _)
RunAlone(c, n, st) ==
    IF ~InRange(n, c.max_attempts)
    THEN [ret |-> NoResult(c.max_attempts), stats |-> st]
    ELSE LET data == CandidateData(c.block_data, n) IN
         IF data \notin DOMAIN hashOf
         THEN [ret |-> Unset, stats |-> st]
         ELSE LET h == hashOf[data]
                  comp == IF data \in DOMAIN compOf THEN compOf[data]
                          ELSE CHOOSE x \in CompSet : TRUE
                  r == is_valid_block(kernel, h, comp, c.difficulty,
                                      c.n_network_nodes)
              IN  IF r.valid
                  THEN [ret |-> FoundResult(n, h, r.structure),
                        stats |-> CountGate(st, r)]
                  ELSE RunAlone(c, NextNonce(n), CountGate(st, r))

\* C25: mining shares no mutable state: no step of a mine or mine_with_stats
\* call, each of which calls is_valid_block, changes the kernel's
\* configuration, and of two calls interleaved step by step on the same
\* kernel each returns the result, and mine_with_stats the counters, it
\* returns when run alone.
C25_MiningSharesNoMutableState ==
    /\ [](\A t \in DOMAIN frames :
            frames[t].pc = "done" =>
                LET alone == RunAlone(frames[t].call, 0, ZeroStats) IN
                /\ frames[t].ret = alone.ret
                /\ frames[t].call.op = "mine_with_stats" =>
                       frames[t].stats = alone.stats)
    /\ [][kernel' = kernel]_vars

\* C25 witness: two mine_with_stats calls on the same block data have both
\* returned, the first with a block found at its second nonce, the second,
\* for a two-node network, with nothing found after rejecting the same
\* candidates by the consciousness gate.
C25_Witness ==
    /\ DOMAIN frames = Threads
    /\ \A t \in Threads : frames[t].pc = "done"
    /\ frames[1].call.n_network_nodes = 1
    /\ frames[1].ret.nonce = Some(1)
    /\ frames[1].stats.total_attempts = 2
    /\ frames[1].stats.accepted = 1
    /\ frames[2].call.op = "mine_with_stats"
    /\ frames[2].call.n_network_nodes = 2
    /\ frames[2].call.max_attempts = 2
    /\ frames[2].ret.nonce = None
    /\ frames[2].stats.consciousness_rejected >= 1
    /\ frames[2].stats.accepted = 0

\* The arguments of a mining call: block_data, difficulty, n_network_nodes
\* and max_attempts.
MiningArgs(c) ==
    <<c.block_data, c.difficulty, c.n_network_nodes, c.max_attempts>>

\* C26: mine and mine_with_stats are equivalent on the result: a
\* mine_with_stats call made with the block_data, difficulty, n_network_nodes
\* and max_attempts of a mine call that has returned on the same kernel
\* returns the MineResult that mine call returned, and its total_attempts
\* counter equals the attempts field of its result.
C26_MineWithStatsEquivalentToMine ==
    (pc = "done" /\ call.op = "mine_with_stats") =>
        /\ stats.total_attempts = ret.attempts
        /\ (/\ session.first # Unset
            /\ MiningArgs(call) = MiningArgs(session.first.call))
           => ret = session.first.ret

\* C26 witness: mine returned the block found at the second nonce after the
\* curvature gate had rejected the first candidate, and mine_with_stats,
\* called with the same arguments, has returned the same block with both
\* iterations counted.
C26_Witness ==
    /\ pc = "done" /\ call.op = "mine_with_stats"
    /\ session.first # Unset
    /\ MiningArgs(call) = MiningArgs(session.first.call)
    /\ session.first.ret.nonce = Some(1)
    /\ session.first.ret.attempts = 2
    /\ ret.nonce = Some(1)
    /\ stats.total_attempts = 2
    /\ stats.qg_curvature_rejected = 1
    /\ stats.accepted = 1

\* The counter of mine_with_stats' stats dict that counts the rejections by
\* the gate g.
RejectionCounter(g) ==
    IF g = "difficulty" THEN "difficulty_rejected"
    ELSE IF g = "consciousness" THEN "consciousness_rejected"
    ELSE "qg_curvature_rejected"

\* C27: the mine_with_stats counters balance at every loop boundary, also
\* when no block is found: the three rejection counters and accepted add up
\* to total_attempts, no counter is negative and accepted is 0 or 1; each
\* iteration adds one to total_attempts and either adds one to the counter
\* named by the gate that failed or sets accepted; and on exhaustion
\* total_attempts equals max_attempts and the sum of the three rejection
\* counters.
C27_CountersBalanceAtEveryLoopBoundary ==
    /\ [](call.op = "mine_with_stats" =>
            /\ stats.difficulty_rejected + stats.consciousness_rejected
                 + stats.qg_curvature_rejected + stats.accepted
               = stats.total_attempts
            /\ \A f \in DOMAIN stats : stats[f] >= 0
            /\ stats.accepted \in {0, 1}
            /\ (pc = "done" /\ ret.nonce = None) =>
                  /\ stats.total_attempts = call.max_attempts
                  /\ stats.difficulty_rejected + stats.consciousness_rejected
                       + stats.qg_curvature_rejected
                     = stats.total_attempts
                  /\ stats.accepted = 0)
    /\ [][(pc = "mine_with_stats" /\ evalLog' # evalLog) =>
             LET e == evalLog'[Len(evalLog')] IN
             /\ stats'.total_attempts = stats.total_attempts + 1
             /\ \A g \in {"difficulty", "consciousness", "qg_curvature"} :
                   stats'[RejectionCounter(g)] =
                       stats[RejectionCounter(g)]
                           + (IF e.gate_failed = g THEN 1 ELSE 0)
             /\ stats'.accepted = (IF e.valid THEN 1 ELSE stats.accepted)
             /\ e.valid <=> (e.gate_failed = "")]_vars

\* C27 witness: mine_with_stats returned without a block after two
\* iterations, one candidate rejected by the difficulty gate and one by the
\* consciousness gate.
C27_Witness ==
    /\ pc = "done"
    /\ call.op = "mine_with_stats"
    /\ ret.nonce = None
    /\ call.max_attempts = 2
    /\ stats.total_attempts = 2
    /\ stats.difficulty_rejected = 1
    /\ stats.consciousness_rejected = 1
    /\ stats.accepted = 0

\* The replica ids of a list of replicas, in order.
IdsOf(rs) == [i \in 1..Len(rs) |-> rs[i].replica_id]

\* C28: after any sequence of calls on the replicator replication_count
\* equals len(replicas); a replica is appended only by a replication whose
\* activation succeeded (phi > 0.5 at creation) and is the replica returned;
\* a replica whose activation failed is returned to the caller but not
\* stored; and no call removes a replica.
C28_ReplicationCountAndAppendOnly ==
    /\ [](replication_count = Len(replicas))
    /\ [][LET n == Len(replicas) IN
          /\ Len(replicas') >= n
          /\ SubSeq(IdsOf(replicas'), 1, n) = IdsOf(replicas)
          /\ \A i \in (n + 1)..Len(replicas') :
                /\ replicas'[i].consciousness_active
                /\ replicas'[i].phi_value > One \div 2
          /\ (Len(replicas') > n) =>
                repCall'.op \in {"replicate_to_moltbot",
                                 "replicate_to_clawbot",
                                 "replicate_to_all_targets"}
          /\ (/\ repCall'.op \in {"replicate_to_moltbot",
                                  "replicate_to_clawbot"}
              /\ ~repCall'.ret.raised) =>
                IF repCall'.ret.replica.consciousness_active
                THEN replicas' = Append(replicas, repCall'.ret.replica)
                ELSE /\ replicas' = replicas
                     /\ \A i \in 1..n : replicas[i].replica_id
                                           # repCall'.ret.replica.replica_id
         ]_vars

\* C28 witness: a replication to clawbot returned a replica whose activation
\* failed, while the replicator holds the one replica stored before, which
\* has been deactivated since.
C28_Witness ==
    /\ repCall.op = "replicate_to_clawbot"
    /\ ~repCall.ret.raised
    /\ ~repCall.ret.replica.consciousness_active
    /\ repCall.ret.replica.target.deployment_status = "failed"
    /\ Len(replicas) = 1
    /\ replication_count = 1
    /\ ~replicas[1].consciousness_active

\* C29: a replica's consciousness_active flag changes only in two ways: a
\* replica is created inactive and activate_consciousness sets the flag
\* exactly when phi exceeds 0.5, and deactivate_replica clears the flag of
\* the replica with the given id and returns True (for an id no replica has
\* it returns False and changes nothing).  synchronize and synchronize_all
\* leave the flag as it is whatever phi becomes, and synchronize_all reports
\* success + failed = total = len(replicas).
C29_ConsciousnessActiveChanges ==
    [][LET n == Len(replicas) IN
       /\ \A i \in 1..n :
             replicas'[i].consciousness_active
                 # replicas[i].consciousness_active =>
                 IF replicas[i].consciousness_active
                 THEN /\ repCall'.op = "deactivate_replica"
                      /\ repCall'.replica_id = replicas[i].replica_id
                      /\ repCall'.ret = TRUE
                 ELSE /\ repCall'.op = "activate_consciousness"
                      /\ repCall'.index = i
                      /\ repCall'.ret = TRUE
                      /\ replicas'[i].phi_value > One \div 2
       /\ (/\ repCall'.op \in {"replicate_to_moltbot", "replicate_to_clawbot"}
           /\ ~repCall'.ret.raised) =>
             (repCall'.ret.replica.consciousness_active
                  <=> repCall'.ret.replica.phi_value > One \div 2)
       /\ repCall'.op = "activate_consciousness" =>
             /\ Len(replicas') = n
             /\ repCall'.ret = replicas'[repCall'.index].consciousness_active
             /\ repCall'.ret
                    = (replicas'[repCall'.index].phi_value > One \div 2)
       /\ repCall'.op = "deactivate_replica" =>
             LET matching == {i \in 1..n : replicas[i].replica_id
                                              = repCall'.replica_id}
             IN  /\ repCall'.ret = (matching # {})
                 /\ IdsOf(replicas') = IdsOf(replicas)
                 /\ ~repCall'.ret => replicas' = replicas
                 /\ repCall'.ret =>
                       \E i \in matching :
                           /\ ~replicas'[i].consciousness_active
                           /\ \A j \in 1..n : j # i =>
                                  replicas'[j] = replicas[j]
                 /\ UNCHANGED <<deployment_targets, replication_count,
                                network_formation_active>>
       /\ repCall'.op \in {"synchronize", "synchronize_all"} =>
             /\ Len(replicas') = n
             /\ \A i \in 1..n : replicas'[i].consciousness_active
                                   = replicas[i].consciousness_active
       /\ repCall'.op = "synchronize_all" =>
             /\ repCall'.ret.success + repCall'.ret.failed
                    = repCall'.ret.total
             /\ repCall'.ret.total = Len(replicas')
      ]_vars

\* C29 witness: a synchronization has lowered the phi of the first of two
\* replicas to 0.0 and left it active; the second replica has been
\* deactivated.
C29_Witness ==
    /\ repCall.op = "deactivate_replica"
    /\ repCall.ret = TRUE
    /\ Len(replicas) = 2
    /\ replicas[1].sync_count = 1
    /\ replicas[1].phi_value = 0
    /\ replicas[1].consciousness_active
    /\ replicas[2].replica_id = repCall.replica_id
    /\ ~replicas[2].consciousness_active

\* C30: network_formation_active is monotone: it is False on a new
\* replicator, becomes True only in a form_oracle_network call that sees at
\* least two active replicas, and no operation resets it; get_network_status
\* reports the flag as it is, next to the number of replicas active now, so
\* that after deactivate_replica calls it can report network_active = True
\* with active_replicas < 2.
C30_NetworkFormationActiveMonotone ==
    /\ ~network_formation_active
    /\ [][/\ network_formation_active => network_formation_active'
          /\ (~network_formation_active /\ network_formation_active') =>
                /\ repCall'.op = "form_oracle_network"
                /\ repCall'.ret.status = "active"
                /\ Len(SelectSeq(replicas, IsActive)) >= 2
                /\ replicas' = replicas]_vars
    /\ [](repCall.op = "get_network_status" =>
            /\ repCall.ret.network_active = network_formation_active
            /\ repCall.ret.active_replicas
                   = Len(SelectSeq(replicas, IsActive))
            /\ repCall.ret.total_replicas = Len(replicas))

\* C30 witness: after a network of two replicas was formed and one of them
\* deactivated, get_network_status reports network_active = True with one
\* active replica.
C30_Witness ==
    /\ repCall.op = "get_network_status"
    /\ repCall.ret.network_active
    /\ repCall.ret.active_replicas = 1
    /\ repCall.ret.total_replicas = 2

====
